---- MODULE Spec2Model ----
(***************************************************************************)
(* A model of the generic doubly linked list of src/linked_list.c.         *)
(*                                                                         *)
(* The memory is one record s:                                             *)
(*   s.lists : list handle -> LinkedList struct (head, tail, length, ...)  *)
(*   s.node  : node address -> Node struct (data, next, prev, mode)        *)
(*   s.blk   : element block address -> its content and its release log    *)
(* Every C function is an operator from the memory before the call to the  *)
(* memory after it and the returned code; the actions apply them.          *)
(***************************************************************************)
EXTENDS Integers, Sequences, FiniteSets, TLC

\* ---------------------------------------------------------------- bounds
\* Element blocks (hence insertions) one behaviour may create.
MaxAlloc == 3
\* Element payloads are 1..MaxVal.
MaxVal == 2
\* Largest capacity set_max_size is given.
MaxCap == 2
\* Largest index an indexed call is given (indices at and past the length).
MaxIdx == 3
\* Largest rotation amount, either way.
MaxRot == 3
\* Largest count remove_advanced is given.
MaxCount == 1
\* Elements appended to a list before an indexed insertion is tried on it.
MaxGrow == 2
\* The two lists given to unique, intersection and union: payloads 1..MaxElem,
\* at most MaxLenA and MaxLenB elements.
MaxElem == 4
MaxLenA == 4
MaxLenB == 3
\* The longest array from_array is given.
MaxArr == 3
\* The file names a program uses.
MaxFiles == 1
\* The largest count remove_advanced is asked for.
MaxRemove == 3
\* The number of elements the heap has room for.
HeapSize == 12

\* ------------------------------------------------------- program constants
UNLIMITED == 0
DELETE_ALL_OCCURRENCES == -1
REJECT_NEW_WHEN_FULL == FALSE
DELETE_OLD_WHEN_FULL == TRUE
NULLP == 0
\* sizeof(int), the element size of the lists driven here.
SizeofInt == 4
SizeofSizeT == 8
SizeofChar == 1

LIST_MODE_VALUE == "LIST_MODE_VALUE"
LIST_MODE_POINTER == "LIST_MODE_POINTER"
START_FROM_HEAD == "START_FROM_HEAD"
START_FROM_TAIL == "START_FROM_TAIL"

LIST_SUCCESS == "LIST_SUCCESS"
LIST_ERROR_NULL_POINTER == "LIST_ERROR_NULL_POINTER"
LIST_ERROR_MEMORY_ALLOC == "LIST_ERROR_MEMORY_ALLOC"
LIST_ERROR_INDEX_OUT_OF_BOUNDS == "LIST_ERROR_INDEX_OUT_OF_BOUNDS"
LIST_ERROR_ELEMENT_NOT_FOUND == "LIST_ERROR_ELEMENT_NOT_FOUND"
LIST_ERROR_LIST_FULL == "LIST_ERROR_LIST_FULL"
LIST_ERROR_INVALID_OPERATION == "LIST_ERROR_INVALID_OPERATION"
LIST_ERROR_OVERWRITE_DISABLED == "LIST_ERROR_OVERWRITE_DISABLED"
LIST_ERROR_NO_COMPARE_FUNCTION == "LIST_ERROR_NO_COMPARE_FUNCTION"
LIST_ERROR_NO_PRINT_FUNCTION == "LIST_ERROR_NO_PRINT_FUNCTION"
LIST_ERROR_NO_FREE_FUNCTION == "LIST_ERROR_NO_FREE_FUNCTION"

\* Not a ListResult: the call read a field through a NULL list handle, which
\* is undefined behaviour; and the process killed by the resulting fault.
NULL_DEREFERENCE == "NULL_DEREFERENCE"
SIGSEGV == "SIGSEGV"

\* The enumerators of ListResult in their order: the integer of each is its
\* position, counted from 0.
ListResult ==
    <<LIST_SUCCESS, LIST_ERROR_NULL_POINTER, LIST_ERROR_MEMORY_ALLOC,
      LIST_ERROR_INDEX_OUT_OF_BOUNDS, LIST_ERROR_ELEMENT_NOT_FOUND, LIST_ERROR_LIST_FULL,
      LIST_ERROR_OVERWRITE_DISABLED, LIST_ERROR_INVALID_OPERATION,
      LIST_ERROR_NO_COMPARE_FUNCTION, LIST_ERROR_NO_PRINT_FUNCTION,
      LIST_ERROR_NO_FREE_FUNCTION>>

\* (int)rc
IntOf(rc) == (CHOOSE i \in 1..Len(ListResult) : ListResult[i] = rc) - 1

Values == 1..MaxVal
Modes == {LIST_MODE_VALUE, LIST_MODE_POINTER}

\* ------------------------------------------------------------- the memory
\* The sentinel addresses create_list's two calloc calls return for handle l.
HeadOf(l) == 0 - (2 * l - 1)
TailOf(l) == 0 - (2 * l)

\* Node: calloc leaves a sentinel's fields zero.
Node(d, n, p, m) == [data |-> d, next |-> n, prev |-> p, mode |-> m]

\* LinkedList, as create_list initialises it.
LinkedList(h, t, element_size) ==
    [head |-> h, tail |-> t, length |-> 0, element_size |-> element_size,
     max_size |-> UNLIMITED,
     allow_overwrite |-> REJECT_NEW_WHEN_FULL,
     print_node_function |-> FALSE, free_node_function |-> FALSE,
     copy_node_function |-> FALSE]

\* f with x mapped to v, x added to the domain when new.
Put(f, x, v) == [y \in (DOMAIN f) \cup {x} |-> IF y = x THEN v ELSE f[y]]
\* f without x.
Drop(f, x) == [y \in (DOMAIN f) \ {x} |-> f[y]]

\* No list, no node, no element block, and no file written yet.
EmptyMemory == [lists |-> <<>>, node |-> <<>>, blk |-> <<>>, fs |-> <<>>]

Ret(s, rc) == [st |-> s, rc |-> rc]

\* The address malloc returns for the next list handle.
NewHandle(s) == Cardinality(DOMAIN s.lists) + 1

\* create_list, its allocations succeeding: the memory with the new handle and
\* its two sentinels linked to each other, and the handle.
create_list(s, element_size) ==
    LET l == NewHandle(s)
        h == HeadOf(l)
        t == TailOf(l)
    IN [st |-> [s EXCEPT
                  !.lists = Put(s.lists, l, LinkedList(h, t, element_size)),
                  !.node = Put(Put(s.node, h, Node(NULLP, t, NULLP, LIST_MODE_VALUE)),
                               t, Node(NULLP, NULLP, h, LIST_MODE_VALUE))],
        list |-> l]

\* The list the specifications drive: the first one created.
L1 == create_list(EmptyMemory, SizeofInt).list

set_print_function(s, l, fn) ==
    IF l # NULLP THEN [s EXCEPT !.lists[l].print_node_function = fn] ELSE s

set_free_function(s, l, fn) ==
    IF l # NULLP THEN [s EXCEPT !.lists[l].free_node_function = fn] ELSE s

set_copy_function(s, l, fn) ==
    IF l # NULLP THEN [s EXCEPT !.lists[l].copy_node_function = fn] ELSE s

get_length(s, l) == IF l # NULLP THEN s.lists[l].length ELSE 0

is_empty(s, l) == l = NULLP \/ s.lists[l].length = 0

\* The memory after create_list(sizeof(int)).
Created == create_list(EmptyMemory, SizeofInt).st

\* ---------------------------------------------------------------- deletion
\* ReleaseData releasing only the blocks the list allocated itself.
ReleaseData_value_only(s, l, n) ==
    LET b == s.node[n].data
        cb == IF s.lists[l].free_node_function THEN 1 ELSE 0
    IN IF s.node[n].mode = LIST_MODE_VALUE
       THEN [s EXCEPT !.blk[b].cbs = @ + cb, !.blk[b].frees = @ + 1]
       ELSE s

\* free(node_to_delete->data), preceded by the free callback when one is set:
\* both ownership modes take the same path.
ReleaseData(s, l, n) ==
    LET b == s.node[n].data
        cb == IF s.lists[l].free_node_function THEN 1 ELSE 0
    IN IF s.node[n].mode = LIST_MODE_VALUE
       THEN [s EXCEPT !.blk[b].cbs = @ + cb, !.blk[b].frees = @ + 1]
       ELSE [s EXCEPT !.blk[b].cbs = @ + cb, !.blk[b].frees = @ + 1]

\* delete_node_core without its list->length--.
delete_node_core_no_count(s, l, n) ==
    IF l = NULLP \/ n = NULLP THEN Ret(s, LIST_ERROR_NULL_POINTER)
    ELSE IF n = s.lists[l].head \/ n = s.lists[l].tail
    THEN Ret(s, LIST_ERROR_INVALID_OPERATION)
    ELSE LET prev_node == s.node[n].prev
             next_node == s.node[n].next
             s1 == [s EXCEPT !.node[prev_node].next = next_node]
             s2 == [s1 EXCEPT !.node[next_node].prev = prev_node]
             s3 == ReleaseData(s2, l, n)
         IN Ret([s3 EXCEPT !.node = Drop(s3.node, n)], LIST_SUCCESS)

delete_node_core(s, l, n) ==
    IF l = NULLP \/ n = NULLP THEN Ret(s, LIST_ERROR_NULL_POINTER)
    ELSE IF n = s.lists[l].head \/ n = s.lists[l].tail
    THEN Ret(s, LIST_ERROR_INVALID_OPERATION)
    ELSE LET prev_node == s.node[n].prev
             next_node == s.node[n].next
             s1 == [s EXCEPT !.node[prev_node].next = next_node]
             s2 == [s1 EXCEPT !.node[next_node].prev = prev_node]
             s3 == ReleaseData(s2, l, n)
             s4 == [s3 EXCEPT !.node = Drop(s3.node, n)]
         IN Ret([s4 EXCEPT !.lists[l].length = @ - 1], LIST_SUCCESS)

delete_head(s, l) ==
    IF l = NULLP THEN Ret(s, LIST_ERROR_NULL_POINTER)
    ELSE IF is_empty(s, l) THEN Ret(s, LIST_ERROR_INVALID_OPERATION)
    ELSE delete_node_core(s, l, s.node[s.lists[l].head].next)

delete_tail(s, l) ==
    IF l = NULLP THEN Ret(s, LIST_ERROR_NULL_POINTER)
    ELSE IF is_empty(s, l) THEN Ret(s, LIST_ERROR_INVALID_OPERATION)
    ELSE delete_node_core(s, l, s.node[s.lists[l].tail].prev)

\* ----------------------------------------------------------- configuration
RECURSIVE EvictLoop(_, _)
\* while (list->length >= list->max_size) delete_head(list)
EvictLoop(s, l) ==
    IF s.lists[l].length >= s.lists[l].max_size
    THEN LET r == delete_head(s, l)
         IN IF r.rc # LIST_SUCCESS THEN r ELSE EvictLoop(r.st, l)
    ELSE Ret(s, LIST_SUCCESS)

\* handle_size_limit removing one element instead of looping.
handle_size_limit_evict_one(s, l) ==
    IF l = NULLP THEN Ret(s, LIST_ERROR_NULL_POINTER)
    ELSE IF s.lists[l].max_size = UNLIMITED \/ s.lists[l].length < s.lists[l].max_size
    THEN Ret(s, LIST_SUCCESS)
    ELSE IF s.lists[l].allow_overwrite = REJECT_NEW_WHEN_FULL
    THEN Ret(s, LIST_ERROR_LIST_FULL)
    ELSE delete_head(s, l)

handle_size_limit(s, l) ==
    IF l = NULLP THEN Ret(s, LIST_ERROR_NULL_POINTER)
    ELSE IF s.lists[l].max_size = UNLIMITED \/ s.lists[l].length < s.lists[l].max_size
    THEN Ret(s, LIST_SUCCESS)
    ELSE IF s.lists[l].allow_overwrite = REJECT_NEW_WHEN_FULL
    THEN Ret(s, LIST_ERROR_LIST_FULL)
    ELSE EvictLoop(s, l)

set_max_size(s, l, max_size, behavior) ==
    IF l = NULLP THEN Ret(s, LIST_ERROR_NULL_POINTER)
    ELSE handle_size_limit([s EXCEPT !.lists[l].max_size = max_size,
                                     !.lists[l].allow_overwrite = behavior], l)

\* --------------------------------------------------------------- insertion
\* The address the next allocation of an element block (and of its node) gets:
\* addresses are never handed out twice, so a block stands for one element.
Fresh(s) == Cardinality(DOMAIN s.blk) + 1

\* An element block: its payload, how its bytes got there ("memcpy", "copy_fn",
\* or "caller" for a block the caller allocated), and how often the list passed
\* it to the free callback (cbs) and to free() (frees) and the caller to free()
\* (cfrees).
Block(v, via) == [val |-> v, via |-> via, cbs |-> 0, frees |-> 0, cfrees |-> 0]

\* create_node_generic: data is the caller's element (its payload v); mem says
\* whether the allocations succeed. Value mode copies the bytes with memcpy into a
\* block of its own; pointer mode stores the caller's block itself.
create_node_generic(s, l, data, mode, mem) ==
    IF ~mem THEN [st |-> s, node |-> NULLP]
    ELSE LET a == Fresh(s)
             b == IF mode = LIST_MODE_VALUE THEN Block(data, "memcpy")
                  ELSE Block(data, "caller")
         IN [st |-> [s EXCEPT !.blk = Put(s.blk, a, b),
                              !.node = Put(s.node, a, Node(a, NULLP, NULLP, mode))],
             node |-> a]

\* Returns the memory, the code and the new node (out_new_node).
insert_node_core_generic(s, l, data, mode, mem) ==
    IF l = NULLP \/ data = NULLP
    THEN [st |-> s, rc |-> LIST_ERROR_NULL_POINTER, node |-> NULLP]
    ELSE LET c == create_node_generic(s, l, data, mode, mem)
         IN IF c.node = NULLP
            THEN [st |-> s, rc |-> LIST_ERROR_MEMORY_ALLOC, node |-> NULLP]
            ELSE [st |-> c.st, rc |-> LIST_SUCCESS, node |-> c.node]

\* Link new_node right after the head sentinel.
LinkHead(s, l, new_node) ==
    LET head == s.lists[l].head
        old_first == s.node[head].next
        s1 == [s EXCEPT !.node[head].next = new_node]
        s2 == [s1 EXCEPT !.node[new_node].prev = head]
        s3 == [s2 EXCEPT !.node[new_node].next = old_first]
        s4 == [s3 EXCEPT !.node[old_first].prev = new_node]
    IN [s4 EXCEPT !.lists[l].length = @ + 1]

\* Link new_node right before the tail sentinel.
LinkTail(s, l, new_node) ==
    LET tail == s.lists[l].tail
        old_last == s.node[tail].prev
        s1 == [s EXCEPT !.node[tail].prev = new_node]
        s2 == [s1 EXCEPT !.node[new_node].next = tail]
        s3 == [s2 EXCEPT !.node[new_node].prev = old_last]
        s4 == [s3 EXCEPT !.node[old_last].next = new_node]
    IN [s4 EXCEPT !.lists[l].length = @ + 1]

insert_head_value_internal(s, l, data, mem) ==
    LET r == insert_node_core_generic(s, l, data, LIST_MODE_VALUE, mem)
    IN IF r.rc # LIST_SUCCESS THEN Ret(r.st, r.rc)
       ELSE Ret(LinkHead(r.st, l, r.node), LIST_SUCCESS)

insert_tail_value_internal(s, l, data, mem) ==
    LET r == insert_node_core_generic(s, l, data, LIST_MODE_VALUE, mem)
    IN IF r.rc # LIST_SUCCESS THEN Ret(r.st, r.rc)
       ELSE Ret(LinkTail(r.st, l, r.node), LIST_SUCCESS)

insert_head_ptr(s, l, data_ptr, mem) ==
    LET r == insert_node_core_generic(s, l, data_ptr, LIST_MODE_POINTER, mem)
    IN IF r.rc # LIST_SUCCESS THEN Ret(r.st, r.rc)
       ELSE Ret(LinkHead(r.st, l, r.node), LIST_SUCCESS)

insert_tail_ptr(s, l, data_ptr, mem) ==
    LET r == insert_node_core_generic(s, l, data_ptr, LIST_MODE_POINTER, mem)
    IN IF r.rc # LIST_SUCCESS THEN Ret(r.st, r.rc)
       ELSE Ret(LinkTail(r.st, l, r.node), LIST_SUCCESS)

\* current = current->next, k times.
RECURSIVE StepNext(_, _, _)
StepNext(s, n, k) == IF k <= 0 THEN n ELSE StepNext(s, s.node[n].next, k - 1)

\* current = current->prev, k times.
RECURSIVE StepPrev(_, _, _)
StepPrev(s, n, k) == IF k <= 0 THEN n ELSE StepPrev(s, s.node[n].prev, k - 1)

\* NodeAt with the forward walk starting at the head sentinel.
NodeAt_from_sentinel(s, l, index) ==
    IF index <= s.lists[l].length \div 2
    THEN StepNext(s, s.lists[l].head, index)
    ELSE StepPrev(s, s.node[s.lists[l].tail].prev, s.lists[l].length - 1 - index)

\* NodeAt with the backward walk running while i >= index.
NodeAt_back_one_more(s, l, index) ==
    IF index <= s.lists[l].length \div 2
    THEN StepNext(s, s.node[s.lists[l].head].next, index)
    ELSE StepPrev(s, s.node[s.lists[l].tail].prev, s.lists[l].length - index)

\* The node at position index (index < length), reached from the nearer end:
\* forward from head->next when index <= length / 2, else backward from
\* tail->prev with i running from length - 1 down to index + 1.
NodeAt(s, l, index) ==
    IF index <= s.lists[l].length \div 2
    THEN StepNext(s, s.node[s.lists[l].head].next, index)
    ELSE StepPrev(s, s.node[s.lists[l].tail].prev, s.lists[l].length - 1 - index)

\* LinkBefore leaving current->prev as it was.
LinkBefore_no_back_link(s, l, new_node, current) ==
    LET s1 == [s EXCEPT !.node[new_node].next = current]
        s2 == [s1 EXCEPT !.node[new_node].prev = s1.node[current].prev]
        s3 == [s2 EXCEPT !.node[s2.node[current].prev].next = new_node]
    IN [s3 EXCEPT !.lists[l].length = @ + 1]

\* Insert new_node before current.
LinkBefore(s, l, new_node, current) ==
    LET s1 == [s EXCEPT !.node[new_node].next = current]
        s2 == [s1 EXCEPT !.node[new_node].prev = s1.node[current].prev]
        s3 == [s2 EXCEPT !.node[s2.node[current].prev].next = new_node]
        s4 == [s3 EXCEPT !.node[current].prev = new_node]
    IN [s4 EXCEPT !.lists[l].length = @ + 1]

\* index >= list->length is evaluated before any test of list: with a NULL
\* handle and index # 0 it reads through NULL.
insert_index_value_internal(s, l, index, data, mem) ==
    IF index = 0 THEN insert_head_value_internal(s, l, data, mem)
    ELSE IF l = NULLP THEN Ret(s, NULL_DEREFERENCE)
    ELSE IF index >= s.lists[l].length THEN insert_tail_value_internal(s, l, data, mem)
    ELSE LET r == insert_node_core_generic(s, l, data, LIST_MODE_VALUE, mem)
         IN IF r.rc # LIST_SUCCESS THEN Ret(r.st, r.rc)
            ELSE Ret(LinkBefore(r.st, l, r.node, NodeAt(r.st, l, index)), LIST_SUCCESS)

insert_index_ptr(s, l, index, data_ptr, mem) ==
    IF index <= 0 THEN insert_head_ptr(s, l, data_ptr, mem)
    ELSE IF l = NULLP THEN Ret(s, NULL_DEREFERENCE)
    ELSE IF index >= s.lists[l].length THEN insert_tail_ptr(s, l, data_ptr, mem)
    ELSE LET r == insert_node_core_generic(s, l, data_ptr, LIST_MODE_POINTER, mem)
         IN IF r.rc # LIST_SUCCESS THEN Ret(r.st, r.rc)
            ELSE Ret(LinkBefore(r.st, l, r.node, NodeAt(r.st, l, index)), LIST_SUCCESS)

RECURSIVE Extended(_, _, _)
\* The memory after k more insert_tail_ptr calls, as the loop of demo.c makes.
Extended(s, l, k) ==
    IF k = 0 THEN s
    ELSE Extended(insert_tail_ptr(s, l, 1, TRUE).st, l, k - 1)

\* ------------------------------------------------- deletion by index / test
\* delete_index testing index > length.
delete_index_bound_off_by_one(s, l, index) ==
    IF l = NULLP THEN Ret(s, LIST_ERROR_NULL_POINTER)
    ELSE IF is_empty(s, l) THEN Ret(s, LIST_ERROR_INVALID_OPERATION)
    ELSE IF index > s.lists[l].length THEN Ret(s, LIST_ERROR_INDEX_OUT_OF_BOUNDS)
    ELSE delete_node_core(s, l, NodeAt(s, l, index))

delete_index(s, l, index) ==
    IF l = NULLP THEN Ret(s, LIST_ERROR_NULL_POINTER)
    ELSE IF is_empty(s, l) THEN Ret(s, LIST_ERROR_INVALID_OPERATION)
    ELSE IF index >= s.lists[l].length THEN Ret(s, LIST_ERROR_INDEX_OUT_OF_BOUNDS)
    ELSE delete_node_core(s, l, NodeAt(s, l, index))

\* A caller's FilterFunction: a NULL function pointer, or a test of the payload.
Predicate(isNull, sat) == [null |-> isNull, sat |-> sat]
Holds(s, predicate, n) == s.blk[s.node[n].data].val \in predicate.sat

RECURSIVE RemoveLoop(_, _, _, _, _, _, _, _)
\* The while loop of remove_advanced: next_node is read before current is
\* deleted. Returns the memory and removed_count.
RemoveLoop(s, l, current, end_sentinel, count, order, predicate, removed_count) ==
    IF current # end_sentinel
       /\ (count = DELETE_ALL_OCCURRENCES \/ removed_count < count)
    THEN LET next_node == IF order = START_FROM_TAIL THEN s.node[current].prev
                          ELSE s.node[current].next
         IN IF Holds(s, predicate, current)
            THEN LET r == delete_node_core(s, l, current)
                 IN RemoveLoop(r.st, l, next_node, end_sentinel, count, order, predicate,
                               IF r.rc = LIST_SUCCESS THEN removed_count + 1
                               ELSE removed_count)
            ELSE RemoveLoop(s, l, next_node, end_sentinel, count, order, predicate,
                            removed_count)
    ELSE [st |-> s, removed |-> removed_count]

\* remove_advanced scanning from the head whatever order says.
remove_advanced_from_head(s, l, count, order, predicate) ==
    IF l = NULLP THEN Ret(s, LIST_ERROR_NULL_POINTER)
    ELSE IF predicate.null THEN Ret(s, LIST_ERROR_INVALID_OPERATION)
    ELSE IF is_empty(s, l) THEN Ret(s, LIST_ERROR_ELEMENT_NOT_FOUND)
    ELSE LET r == RemoveLoop(s, l, s.node[s.lists[l].head].next, s.lists[l].tail,
                             count, START_FROM_HEAD, predicate, 0)
         IN Ret(r.st, IF r.removed > 0 THEN LIST_SUCCESS ELSE LIST_ERROR_ELEMENT_NOT_FOUND)

remove_advanced(s, l, count, order, predicate) ==
    IF l = NULLP THEN Ret(s, LIST_ERROR_NULL_POINTER)
    ELSE IF predicate.null THEN Ret(s, LIST_ERROR_INVALID_OPERATION)
    ELSE IF is_empty(s, l) THEN Ret(s, LIST_ERROR_ELEMENT_NOT_FOUND)
    ELSE LET current == IF order = START_FROM_TAIL THEN s.node[s.lists[l].tail].prev
                        ELSE s.node[s.lists[l].head].next
             end_sentinel == IF order = START_FROM_TAIL THEN s.lists[l].head
                             ELSE s.lists[l].tail
             r == RemoveLoop(s, l, current, end_sentinel, count, order, predicate, 0)
         IN Ret(r.st, IF r.removed > 0 THEN LIST_SUCCESS ELSE LIST_ERROR_ELEMENT_NOT_FOUND)

RECURSIVE ClearLoop(_, _)
\* while (!is_empty(list)) delete_head(list)
ClearLoop(s, l) ==
    IF ~is_empty(s, l)
    THEN LET r == delete_head(s, l)
         IN IF r.rc # LIST_SUCCESS THEN r ELSE ClearLoop(r.st, l)
    ELSE Ret(s, LIST_SUCCESS)

clear(s, l) == IF l = NULLP THEN Ret(s, LIST_ERROR_NULL_POINTER) ELSE ClearLoop(s, l)

\* destroy: clear, then free both sentinels and the handle.
destroy(s, l) ==
    IF l = NULLP THEN s
    ELSE LET c == clear(s, l).st
             h == c.lists[l].head
             t == c.lists[l].tail
         IN [c EXCEPT !.node = Drop(Drop(c.node, h), t), !.lists = Drop(c.lists, l)]

\* ------------------------------------------------------ reverse and rotate
RECURSIVE ReverseLoop_next_only(_, _, _, _)
\* ReverseLoop turning only the next pointers.
ReverseLoop_next_only(s, current, prev_node, tail) ==
    IF current # tail
    THEN LET next_node == s.node[current].next
             s1 == [s EXCEPT !.node[current].next = prev_node]
         IN ReverseLoop_next_only(s1, next_node, current, tail)
    ELSE [st |-> s, prev_node |-> prev_node]

RECURSIVE ReverseLoop(_, _, _, _)
\* The first while loop of reverse: swap next and prev of every real node.
\* Returns the memory and the last node visited (prev_node).
ReverseLoop(s, current, prev_node, tail) ==
    IF current # tail
    THEN LET next_node == s.node[current].next
             s1 == [s EXCEPT !.node[current].next = prev_node]
             s2 == [s1 EXCEPT !.node[current].prev = next_node]
         IN ReverseLoop(s2, next_node, current, tail)
    ELSE [st |-> s, prev_node |-> prev_node]

RECURSIVE FindLast(_, _, _)
\* while (current->next != list->head) current = current->next;
FindLast(s, current, head) ==
    IF s.node[current].next # head THEN FindLast(s, s.node[current].next, head)
    ELSE current

reverse(s, l) ==
    IF l = NULLP THEN Ret(s, LIST_ERROR_NULL_POINTER)
    ELSE IF s.lists[l].length <= 1 THEN Ret(s, LIST_SUCCESS)
    ELSE LET head == s.lists[l].head
             tail == s.lists[l].tail
             r == ReverseLoop(s, s.node[head].next, head, tail)
             s1 == [r.st EXCEPT !.node[head].next = r.prev_node]
             s2 == [s1 EXCEPT !.node[r.prev_node].prev = head]
             s3 == [s2 EXCEPT !.node[tail].prev = s2.node[head].next]
             current == FindLast(s3, s3.node[head].next, head)
             s4 == [s3 EXCEPT !.node[current].next = tail]
         IN Ret([s4 EXCEPT !.node[tail].prev = current], LIST_SUCCESS)

\* C's a % b for b > 0: the remainder takes the sign of a.
CRem(a, b) == IF a >= 0 THEN a % b ELSE 0 - ((0 - a) % b)

\* ActualPositions without the correction of a negative remainder.
ActualPositions_no_fix(positions, length) == CRem(positions, length)

\* positions % length, made non-negative by adding length.
ActualPositions(positions, length) ==
    LET r == CRem(positions, length)
    IN IF r < 0 THEN r + length ELSE r

rotate(s, l, positions) ==
    IF l = NULLP \/ s.lists[l].length <= 1 THEN Ret(s, LIST_SUCCESS)
    ELSE LET head == s.lists[l].head
             tail == s.lists[l].tail
             actual_positions == ActualPositions(positions, s.lists[l].length)
             split_point == StepNext(s, s.node[head].next, actual_positions)
         IN IF actual_positions = 0 THEN Ret(s, LIST_SUCCESS)
            ELSE IF split_point = tail THEN Ret(s, LIST_SUCCESS)
            ELSE LET first_part_start == s.node[head].next
                     first_part_end == s.node[split_point].prev
                     second_part_start == split_point
                     second_part_end == s.node[tail].prev
                     s1 == [s EXCEPT !.node[head].next = second_part_start]
                     s2 == [s1 EXCEPT !.node[second_part_start].prev = head]
                     s3 == [s2 EXCEPT !.node[second_part_end].next = first_part_start]
                     s4 == [s3 EXCEPT !.node[first_part_start].prev = second_part_end]
                     s5 == [s4 EXCEPT !.node[first_part_end].next = tail]
                 IN Ret([s5 EXCEPT !.node[tail].prev = first_part_end], LIST_SUCCESS)

\* ----------------------------------------------------- set-like transforms
\* A caller's CompareFunction: a NULL function pointer, or a comparison of the
\* payloads by a key (compare_int is the one whose key is the payload itself).
CompareFunction(isNull, key) == [null |-> isNull, key |-> key]

\* compare_fn(data1, data2) on two element blocks.
Compare(s, compare_fn, data1, data2) ==
    compare_fn.key[s.blk[data1].val] - compare_fn.key[s.blk[data2].val]

copy_list_configuration(s, dest, src) ==
    IF dest = NULLP \/ src = NULLP THEN s
    ELSE [s EXCEPT
            !.lists[dest].print_node_function = s.lists[src].print_node_function,
            !.lists[dest].free_node_function = s.lists[src].free_node_function,
            !.lists[dest].copy_node_function = s.lists[src].copy_node_function]

RECURSIVE FoundIn(_, _, _, _, _)
\* The inner while loop of unique_advanced: is an element comparing equal to
\* data among the nodes from unique_current to the tail sentinel?
FoundIn(s, compare_fn, data, unique_current, tail) ==
    IF unique_current = tail THEN FALSE
    ELSE IF Compare(s, compare_fn, data, s.node[unique_current].data) = 0 THEN TRUE
    ELSE FoundIn(s, compare_fn, data, s.node[unique_current].next, tail)

RECURSIVE UniqueLoop_head_insert(_, _, _, _, _, _)
\* UniqueLoop inserting at the head in the forward direction too.
UniqueLoop_head_insert(s, list, unique_list, compare_fn, order, current) ==
    IF current = (IF order = START_FROM_TAIL THEN s.lists[list].head
                  ELSE s.lists[list].tail)
    THEN [st |-> s, list |-> unique_list]
    ELSE LET data == s.node[current].data
             found == FoundIn(s, compare_fn, data,
                              s.node[s.lists[unique_list].head].next,
                              s.lists[unique_list].tail)
             r == insert_head_value_internal(s, unique_list, s.blk[data].val, TRUE)
             next_node == IF order = START_FROM_TAIL THEN s.node[current].prev
                          ELSE s.node[current].next
         IN IF found
            THEN UniqueLoop_head_insert(s, list, unique_list, compare_fn, order, next_node)
            ELSE UniqueLoop_head_insert(r.st, list, unique_list, compare_fn, order, next_node)

RECURSIVE UniqueLoop(_, _, _, _, _, _)
\* The outer while loop of unique_advanced, in either direction. Returns the
\* memory and the list (NULL once an insertion failed).
UniqueLoop(s, list, unique_list, compare_fn, order, current) ==
    IF current = (IF order = START_FROM_TAIL THEN s.lists[list].head
                  ELSE s.lists[list].tail)
    THEN [st |-> s, list |-> unique_list]
    ELSE LET data == s.node[current].data
             found == FoundIn(s, compare_fn, data,
                              s.node[s.lists[unique_list].head].next,
                              s.lists[unique_list].tail)
             r == IF order = START_FROM_TAIL
                  THEN insert_head_value_internal(s, unique_list, s.blk[data].val, TRUE)
                  ELSE insert_tail_value_internal(s, unique_list, s.blk[data].val, TRUE)
             next_node == IF order = START_FROM_TAIL THEN s.node[current].prev
                          ELSE s.node[current].next
         IN IF found THEN UniqueLoop(s, list, unique_list, compare_fn, order, next_node)
            ELSE IF r.rc # LIST_SUCCESS
            THEN [st |-> destroy(r.st, unique_list), list |-> NULLP]
            ELSE UniqueLoop(r.st, list, unique_list, compare_fn, order, next_node)

\* unique_advanced scanning from the head whatever the order asked for.
unique_advanced_forward_only(s, list, compare_fn, order) ==
    IF list = NULLP THEN [st |-> s, list |-> NULLP]
    ELSE IF compare_fn.null THEN [st |-> s, list |-> NULLP]
    ELSE LET c == create_list(s, s.lists[list].element_size)
             s1 == copy_list_configuration(c.st, c.list, list)
         IN UniqueLoop(s1, list, c.list, compare_fn, START_FROM_HEAD,
                       s1.node[s1.lists[list].head].next)

unique_advanced(s, list, compare_fn, order) ==
    IF list = NULLP THEN [st |-> s, list |-> NULLP]
    ELSE IF compare_fn.null THEN [st |-> s, list |-> NULLP]
    ELSE LET c == create_list(s, s.lists[list].element_size)
             s1 == copy_list_configuration(c.st, c.list, list)
         IN UniqueLoop(s1, list, c.list, compare_fn, order,
                       IF order = START_FROM_TAIL THEN s1.node[s1.lists[list].tail].prev
                       ELSE s1.node[s1.lists[list].head].next)

unique(s, list, compare_fn) == unique_advanced(s, list, compare_fn, START_FROM_HEAD)

RECURSIVE IndexLoop(_, _, _, _, _, _)
\* The while loop of index_of_with_compare.
IndexLoop(s, list, data, compare_fn, current, index) ==
    IF current = s.lists[list].tail THEN 0 - 1
    ELSE IF Compare(s, compare_fn, s.node[current].data, data) = 0 THEN index
    ELSE IndexLoop(s, list, data, compare_fn, s.node[current].next, index + 1)

index_of_with_compare(s, list, data, compare_fn) ==
    IF list = NULLP \/ data = NULLP \/ compare_fn.null THEN 0 - 1
    ELSE IndexLoop(s, list, data, compare_fn, s.node[s.lists[list].head].next, 0)

RECURSIVE IntersectionLoop_no_dedup(_, _, _, _, _, _)
\* IntersectionLoop without the test that the element is not yet in the result.
IntersectionLoop_no_dedup(s, list1, list2, compare_fn, intersection_list, current) ==
    IF current = s.lists[list1].tail THEN [st |-> s, list |-> intersection_list]
    ELSE LET data == s.node[current].data
             r == insert_tail_value_internal(s, intersection_list, s.blk[data].val, TRUE)
         IN IF index_of_with_compare(s, list2, data, compare_fn) # 0 - 1
            THEN IntersectionLoop_no_dedup(r.st, list1, list2, compare_fn,
                                           intersection_list, r.st.node[current].next)
            ELSE IntersectionLoop_no_dedup(s, list1, list2, compare_fn,
                                           intersection_list, s.node[current].next)

RECURSIVE IntersectionLoop(_, _, _, _, _, _)
\* The while loop of intersection over list1.
IntersectionLoop(s, list1, list2, compare_fn, intersection_list, current) ==
    IF current = s.lists[list1].tail THEN [st |-> s, list |-> intersection_list]
    ELSE LET data == s.node[current].data
             r == insert_tail_value_internal(s, intersection_list, s.blk[data].val, TRUE)
         IN IF /\ index_of_with_compare(s, list2, data, compare_fn) # 0 - 1
               /\ index_of_with_compare(s, intersection_list, data, compare_fn) = 0 - 1
            THEN IF r.rc # LIST_SUCCESS
                 THEN [st |-> destroy(r.st, intersection_list), list |-> NULLP]
                 ELSE IntersectionLoop(r.st, list1, list2, compare_fn, intersection_list,
                                       r.st.node[current].next)
            ELSE IntersectionLoop(s, list1, list2, compare_fn, intersection_list,
                                  s.node[current].next)

intersection(s, list1, list2, compare_fn) ==
    IF list1 = NULLP \/ list2 = NULLP \/ compare_fn.null THEN [st |-> s, list |-> NULLP]
    ELSE IF s.lists[list1].element_size # s.lists[list2].element_size
    THEN [st |-> s, list |-> NULLP]
    ELSE LET c == create_list(s, s.lists[list1].element_size)
             s1 == copy_list_configuration(c.st, c.list, list1)
         IN IntersectionLoop(s1, list1, list2, compare_fn, c.list,
                             s1.node[s1.lists[list1].head].next)

RECURSIVE UnionLoop_against_list2(_, _, _, _, _)
\* UnionLoop looking the element up in list2 instead of in the result.
UnionLoop_against_list2(s, list2, compare_fn, union_list, current) ==
    IF current = s.lists[list2].tail THEN [st |-> s, list |-> union_list]
    ELSE LET data == s.node[current].data
             r == insert_tail_value_internal(s, union_list, s.blk[data].val, TRUE)
         IN IF index_of_with_compare(s, list2, data, compare_fn) = 0 - 1
            THEN UnionLoop_against_list2(r.st, list2, compare_fn, union_list,
                                         r.st.node[current].next)
            ELSE UnionLoop_against_list2(s, list2, compare_fn, union_list,
                                         s.node[current].next)

RECURSIVE UnionLoop(_, _, _, _, _)
\* The while loop of union_lists over list2.
UnionLoop(s, list2, compare_fn, union_list, current) ==
    IF current = s.lists[list2].tail THEN [st |-> s, list |-> union_list]
    ELSE LET data == s.node[current].data
             r == insert_tail_value_internal(s, union_list, s.blk[data].val, TRUE)
         IN IF index_of_with_compare(s, union_list, data, compare_fn) = 0 - 1
            THEN IF r.rc # LIST_SUCCESS
                 THEN [st |-> destroy(r.st, union_list), list |-> NULLP]
                 ELSE UnionLoop(r.st, list2, compare_fn, union_list, r.st.node[current].next)
            ELSE UnionLoop(s, list2, compare_fn, union_list, s.node[current].next)

union_lists(s, list1, list2, compare_fn) ==
    IF list1 = NULLP \/ list2 = NULLP \/ compare_fn.null THEN [st |-> s, list |-> NULLP]
    ELSE IF s.lists[list1].element_size # s.lists[list2].element_size
    THEN [st |-> s, list |-> NULLP]
    ELSE LET u == unique(s, list1, compare_fn)
         IN IF u.list = NULLP THEN [st |-> u.st, list |-> NULLP]
            ELSE UnionLoop(u.st, list2, compare_fn, u.list,
                           u.st.node[u.st.lists[list2].head].next)

\* ------------------------------------------------ search, sort, extend, arrays
\* A caller's PredicateFunction has the shape of a FilterFunction: Predicate.

RECURSIVE IndexOfLoop(_, _, _, _, _, _)
\* The two while loops of index_of_advanced; index is a size_t, and the
\* backward loop stops at index 0.
IndexOfLoop(s, list, order, predicate, current, index) ==
    IF order = START_FROM_TAIL
    THEN IF current = s.lists[list].head THEN 0 - IntOf(LIST_ERROR_ELEMENT_NOT_FOUND)
         ELSE IF Holds(s, predicate, current) THEN index
         ELSE IF index = 0 THEN 0 - IntOf(LIST_ERROR_ELEMENT_NOT_FOUND)
         ELSE IndexOfLoop(s, list, order, predicate, s.node[current].prev, index - 1)
    ELSE IF current = s.lists[list].tail THEN 0 - IntOf(LIST_ERROR_ELEMENT_NOT_FOUND)
         ELSE IF Holds(s, predicate, current) THEN index
         ELSE IndexOfLoop(s, list, order, predicate, s.node[current].next, index + 1)

\* index_of_advanced searching from the head whatever the order asked for.
index_of_advanced_from_head(s, list, order, predicate) ==
    IF list = NULLP THEN 0 - IntOf(LIST_ERROR_NULL_POINTER)
    ELSE IF predicate.null THEN 0 - IntOf(LIST_ERROR_INVALID_OPERATION)
    ELSE IndexOfLoop(s, list, START_FROM_HEAD, predicate,
                     s.node[s.lists[list].head].next, 0)

\* Returns the index, or a negated ListResult.
index_of_advanced(s, list, order, predicate) ==
    IF list = NULLP THEN 0 - IntOf(LIST_ERROR_NULL_POINTER)
    ELSE IF predicate.null THEN 0 - IntOf(LIST_ERROR_INVALID_OPERATION)
    ELSE IF order = START_FROM_TAIL
    THEN IndexOfLoop(s, list, order, predicate, s.node[s.lists[list].tail].prev,
                     s.lists[list].length - 1)
    ELSE IndexOfLoop(s, list, order, predicate, s.node[s.lists[list].head].next, 0)

index_of(s, list, predicate) == index_of_advanced(s, list, START_FROM_HEAD, predicate)

RECURSIVE SortPass(_, _, _, _, _)
\* The inner while loop of sort_list: one pass swapping the data pointers of
\* neighbours that compare > 0. Returns the memory and swapped.
SortPass(s, list, compare_fn, current, swapped) ==
    IF s.node[current].next = s.lists[list].tail THEN [st |-> s, swapped |-> swapped]
    ELSE LET next_node == s.node[current].next
             comparison == Compare(s, compare_fn, s.node[current].data,
                                   s.node[next_node].data)
             temp_data == s.node[current].data
             s1 == [s EXCEPT !.node[current].data = s.node[next_node].data]
             s2 == [s1 EXCEPT !.node[next_node].data = temp_data]
         IN IF comparison > 0 THEN SortPass(s2, list, compare_fn, next_node, TRUE)
            ELSE SortPass(s, list, compare_fn, next_node, swapped)

\* SortLoop making one pass only.
SortLoop_single_pass(s, list, compare_fn) ==
    Ret(SortPass(s, list, compare_fn, s.node[s.lists[list].head].next, FALSE).st,
        LIST_SUCCESS)

RECURSIVE SortLoop(_, _, _)
\* do { one pass } while (swapped);
SortLoop(s, list, compare_fn) ==
    LET p == SortPass(s, list, compare_fn, s.node[s.lists[list].head].next, FALSE)
    IN IF p.swapped THEN SortLoop(p.st, list, compare_fn) ELSE Ret(p.st, LIST_SUCCESS)

sort_list(s, list, compare_fn) ==
    IF list = NULLP THEN Ret(s, LIST_ERROR_NULL_POINTER)
    ELSE IF compare_fn.null THEN Ret(s, LIST_ERROR_NO_COMPARE_FUNCTION)
    ELSE IF s.lists[list].length <= 1 THEN Ret(s, LIST_SUCCESS)
    ELSE SortLoop(s, list, compare_fn)

\* malloc succeeds until HeapSize element blocks have been handed out.
HasRoom(s) == Cardinality(DOMAIN s.blk) < HeapSize

RECURSIVE ExtendLoop(_, _, _, _)
\* The while loop of extend over the nodes of other.
ExtendLoop(s, list, other, current) ==
    IF current = s.lists[other].tail THEN Ret(s, LIST_SUCCESS)
    ELSE LET r == insert_tail_value_internal(s, list, s.blk[s.node[current].data].val,
                                             HasRoom(s))
         IN IF r.rc # LIST_SUCCESS THEN r
            ELSE ExtendLoop(r.st, list, other, r.st.node[current].next)

extend(s, list, other) ==
    IF list = NULLP \/ other = NULLP THEN Ret(s, LIST_ERROR_NULL_POINTER)
    ELSE ExtendLoop(s, list, other, s.node[s.lists[other].head].next)

\* A caller's array: a NULL pointer, or the payloads of its elements.
Array(isNull, elems) == [null |-> isNull, elems |-> elems]

RECURSIVE FromArrayLoop(_, _, _, _, _)
\* for (i = 0; i < n; i++) insert_tail_value_internal(list, &arr[i])
FromArrayLoop(s, list, arr, n, i) ==
    IF i < n
    THEN LET r == insert_tail_value_internal(s, list, arr.elems[i + 1], TRUE)
         IN IF r.rc # LIST_SUCCESS THEN r ELSE FromArrayLoop(r.st, list, arr, n, i + 1)
    ELSE Ret(s, LIST_SUCCESS)

\* from_array without the clear: the elements are appended to what is there.
from_array_keeping_contents(s, list, arr, n) ==
    IF list = NULLP \/ arr.null THEN Ret(s, LIST_ERROR_NULL_POINTER)
    ELSE FromArrayLoop(s, list, arr, n, 0)

\* The elements are copied by insert_tail_value_internal (memcpy), whatever copy
\* callback the list has.
from_array(s, list, arr, n) ==
    IF list = NULLP \/ arr.null THEN Ret(s, LIST_ERROR_NULL_POINTER)
    ELSE LET clear_result == clear(s, list)
         IN IF clear_result.rc # LIST_SUCCESS THEN clear_result
            ELSE FromArrayLoop(clear_result.st, list, arr, n, 0)

RECURSIVE ToArrayLoop(_, _, _, _)
\* The while loop of to_array: memcpy of each element to the next slot.
ToArrayLoop(s, list, current, byte_array) ==
    IF current = s.lists[list].tail THEN byte_array
    ELSE ToArrayLoop(s, list, s.node[current].next,
                     Append(byte_array, s.blk[s.node[current].data].val))

\* Returns the array and *out_size (hasSize: out_size is not NULL; the array is
\* NULL for an empty list, with *out_size already set).
to_array(s, list, hasSize) ==
    IF list = NULLP \/ ~hasSize THEN [array |-> Array(TRUE, <<>>), out_size |-> NULLP]
    ELSE IF s.lists[list].length = 0
    THEN [array |-> Array(TRUE, <<>>), out_size |-> s.lists[list].length]
    ELSE [array |-> Array(FALSE, ToArrayLoop(s, list, s.node[s.lists[list].head].next, <<>>)),
          out_size |-> s.lists[list].length]

\* ---------------------------------------------------------- derived lists
\* copy: a new list with the source's callbacks and copies of its elements.
copy(s, list) ==
    IF list = NULLP THEN [st |-> s, list |-> NULLP]
    ELSE LET c == create_list(s, s.lists[list].element_size)
             s1 == copy_list_configuration(c.st, c.list, list)
             extend_result == extend(s1, c.list, list)
         IN IF extend_result.rc # LIST_SUCCESS
            THEN [st |-> destroy(extend_result.st, c.list), list |-> NULLP]
            ELSE [st |-> extend_result.st, list |-> c.list]

concat(s, list1, list2) ==
    IF list1 = NULLP \/ list2 = NULLP THEN [st |-> s, list |-> NULLP]
    ELSE IF s.lists[list1].element_size # s.lists[list2].element_size
    THEN [st |-> s, list |-> NULLP]
    ELSE LET c == create_list(s, s.lists[list1].element_size)
             s1 == copy_list_configuration(c.st, c.list, list1)
             e1 == extend(s1, c.list, list1)
             e2 == extend(e1.st, c.list, list2)
         IN IF e1.rc # LIST_SUCCESS THEN [st |-> destroy(e1.st, c.list), list |-> NULLP]
            ELSE IF e2.rc # LIST_SUCCESS
            THEN [st |-> destroy(e2.st, c.list), list |-> NULLP]
            ELSE [st |-> e2.st, list |-> c.list]

RECURSIVE SliceLoop(_, _, _, _, _, _)
\* for (i = start; i < end && current != list->tail; i++) insert at the tail
SliceLoop(s, list, sliced, current, i, end) ==
    IF i < end /\ current # s.lists[list].tail
    THEN LET r == insert_tail_value_internal(s, sliced, s.blk[s.node[current].data].val, TRUE)
         IN IF r.rc # LIST_SUCCESS THEN [st |-> destroy(r.st, sliced), list |-> NULLP]
            ELSE SliceLoop(r.st, list, sliced, r.st.node[current].next, i + 1, end)
    ELSE [st |-> s, list |-> sliced]

\* slice: the elements at positions start .. end - 1 (end clamped to length).
slice(s, list, start, end) ==
    IF list = NULLP THEN [st |-> s, list |-> NULLP]
    ELSE IF start >= end \/ start >= s.lists[list].length THEN [st |-> s, list |-> NULLP]
    ELSE LET end1 == IF end > s.lists[list].length THEN s.lists[list].length ELSE end
             c == create_list(s, s.lists[list].element_size)
             s1 == copy_list_configuration(c.st, c.list, list)
             current == StepNext(s1, s1.node[s1.lists[list].head].next, start)
         IN SliceLoop(s1, list, c.list, current, start, end1)

RECURSIVE FilterLoop(_, _, _, _, _)
FilterLoop(s, list, filtered, filter_fn, current) ==
    IF current = s.lists[list].tail THEN [st |-> s, list |-> filtered]
    ELSE IF Holds(s, filter_fn, current)
    THEN LET r == insert_tail_value_internal(s, filtered, s.blk[s.node[current].data].val, TRUE)
         IN IF r.rc # LIST_SUCCESS THEN [st |-> destroy(r.st, filtered), list |-> NULLP]
            ELSE FilterLoop(r.st, list, filtered, filter_fn, r.st.node[current].next)
    ELSE FilterLoop(s, list, filtered, filter_fn, s.node[current].next)

filter(s, list, filter_fn) ==
    IF list = NULLP \/ filter_fn.null THEN [st |-> s, list |-> NULLP]
    ELSE LET c == create_list(s, s.lists[list].element_size)
             s1 == copy_list_configuration(c.st, c.list, list)
         IN FilterLoop(s1, list, c.list, filter_fn, s1.node[s1.lists[list].head].next)

\* A caller's MapFunction: a NULL function pointer, or the payload it writes to
\* dest for each payload of src.
MapFunction(isNull, fn) == [null |-> isNull, fn |-> fn]

RECURSIVE MapLoop(_, _, _, _, _)
\* The while loop of map: transformed is a scratch block, filled by map_fn,
\* copied into the new list and freed.
MapLoop(s, list, mapped, map_fn, current) ==
    IF current = s.lists[list].tail THEN [st |-> s, list |-> mapped]
    ELSE LET transformed == map_fn.fn[s.blk[s.node[current].data].val]
             r == insert_tail_value_internal(s, mapped, transformed, TRUE)
         IN IF r.rc # LIST_SUCCESS THEN [st |-> destroy(r.st, mapped), list |-> NULLP]
            ELSE MapLoop(r.st, list, mapped, map_fn, r.st.node[current].next)

\* map with the callbacks copied from the source list, the print one reset.
map_inheriting_callbacks(s, list, map_fn, new_element_size) ==
    IF list = NULLP \/ map_fn.null THEN [st |-> s, list |-> NULLP]
    ELSE LET c == create_list(s, new_element_size)
             s1 == set_print_function(copy_list_configuration(c.st, c.list, list),
                                      c.list, FALSE)
         IN MapLoop(s1, list, c.list, map_fn, s1.node[s1.lists[list].head].next)

\* map: the new list keeps the configuration create_list gives it; none of the
\* source's callbacks is copied.
map(s, list, map_fn, new_element_size) ==
    IF list = NULLP \/ map_fn.null THEN [st |-> s, list |-> NULLP]
    ELSE LET c == create_list(s, new_element_size)
         IN MapLoop(c.st, list, c.list, map_fn, c.st.node[c.st.lists[list].head].next)

\* ----------------------------------------------------------- binary files
RECURSIVE Bytes(_, _)
\* The object representation fwrite writes of an integer: w bytes, the least
\* significant first, two's complement for a negative one. The same
\* representation is read back by fread.
Bytes(v, w) == IF w = 0 THEN <<>> ELSE <<v % 256>> \o Bytes(v \div 256, w - 1)

RECURSIVE FromBytes(_)
\* The unsigned value (size_t) a sequence of bytes holds.
FromBytes(q) == IF q = <<>> THEN 0 ELSE Head(q) + 256 * FromBytes(Tail(q))

RECURSIVE ElementOf(_)
\* The payload the bytes of an element hold: the signed value.
ElementOf(q) ==
    IF Len(q) = 1 THEN (IF Head(q) >= 128 THEN Head(q) - 256 ELSE Head(q))
    ELSE Head(q) + 256 * ElementOf(Tail(q))

RECURSIVE SaveLoop(_, _, _, _)
\* while (cur != list->tail) { fwrite(cur->data, element_size, 1, file); ... }
SaveLoop(s, list, cur, file) ==
    IF cur = s.lists[list].tail THEN file
    ELSE SaveLoop(s, list, s.node[cur].next,
                  file \o Bytes(s.blk[s.node[cur].data].val, s.lists[list].element_size))

\* save_to_file writing the element size before the count.
save_to_file_binary_size_first(s, list, filename, opens) ==
    IF list = NULLP \/ filename = NULLP THEN Ret(s, LIST_ERROR_NULL_POINTER)
    ELSE IF ~opens THEN Ret(s, LIST_ERROR_INVALID_OPERATION)
    ELSE LET header == Bytes(s.lists[list].element_size, SizeofSizeT)
                       \o Bytes(s.lists[list].length, SizeofSizeT)
             file == SaveLoop(s, list, s.node[s.lists[list].head].next, header)
         IN Ret([s EXCEPT !.fs = Put(s.fs, filename, file)], LIST_SUCCESS)

\* save_to_file with format == FILE_FORMAT_BINARY (opens: fopen(filename, "wb")
\* succeeds; it truncates the file). The writes' results are not tested by the
\* code; they are taken to succeed.
save_to_file_binary(s, list, filename, opens) ==
    IF list = NULLP \/ filename = NULLP THEN Ret(s, LIST_ERROR_NULL_POINTER)
    ELSE IF ~opens THEN Ret(s, LIST_ERROR_INVALID_OPERATION)
    ELSE LET header == Bytes(s.lists[list].length, SizeofSizeT)
                       \o Bytes(s.lists[list].element_size, SizeofSizeT)
             file == SaveLoop(s, list, s.node[s.lists[list].head].next, header)
         IN Ret([s EXCEPT !.fs = Put(s.fs, filename, file)], LIST_SUCCESS)

RECURSIVE LoadLoop(_, _, _, _, _, _)
\* The for loop of the binary loader: pos is the read position in the file. A
\* short read destroys the list built so far. The buffer elem is allocated and
\* freed within one iteration.
LoadLoop(s, blist, file, pos, i, saved_length) ==
    IF i < saved_length
    THEN LET element_size == s.lists[blist].element_size
         IN IF pos + element_size > Len(file)
            THEN [st |-> destroy(s, blist), list |-> NULLP]
            ELSE LET elem == ElementOf(SubSeq(file, pos + 1, pos + element_size))
                     r == insert_tail_value_internal(s, blist, elem, TRUE)
                 IN IF r.rc # LIST_SUCCESS
                    THEN [st |-> destroy(r.st, blist), list |-> NULLP]
                    ELSE LoadLoop(r.st, blist, file, pos + element_size, i + 1, saved_length)
    ELSE [st |-> s, list |-> blist]

\* load_from_file with format == FILE_FORMAT_BINARY: fopen(filename, "rb") fails
\* for a file that does not exist; compare_fn is not used.
load_from_file_binary(s, filename, element_size, print_fn, free_fn, copy_fn) ==
    IF filename = NULLP THEN [st |-> s, list |-> NULLP]
    ELSE IF filename \notin DOMAIN s.fs THEN [st |-> s, list |-> NULLP]
    ELSE LET bfile == s.fs[filename]
         IN IF Len(bfile) < 2 * SizeofSizeT THEN [st |-> s, list |-> NULLP]
            ELSE LET saved_length == FromBytes(SubSeq(bfile, 1, SizeofSizeT))
                     saved_element_size ==
                         FromBytes(SubSeq(bfile, SizeofSizeT + 1, 2 * SizeofSizeT))
                 IN IF saved_element_size # element_size THEN [st |-> s, list |-> NULLP]
                    ELSE LET c == create_list(s, element_size)
                             s1 == IF print_fn THEN set_print_function(c.st, c.list, print_fn)
                                   ELSE c.st
                             s2 == IF free_fn THEN set_free_function(s1, c.list, free_fn)
                                   ELSE s1
                             s3 == IF copy_fn THEN set_copy_function(s2, c.list, copy_fn)
                                   ELSE s2
                         IN LoadLoop(s3, c.list, bfile, 2 * SizeofSizeT, 0, saved_length)

\* -------------------------------------------------------------- text files
\* A text file is the sequence of its characters' codes. The lists saved and
\* loaded here have int or char elements (the double and the hex-dump branches
\* belong to other element sizes), and an element's payload is never 0, which
\* the insertion operators read as a NULL data pointer.

\* A caller's separator string: a NULL pointer, or its characters.
Separator(isNull, chars) == [null |-> isNull, chars |-> chars]

RECURSIVE Digits(_)
\* The decimal digits of a natural number.
Digits(n) == IF n < 10 THEN <<48 + n>> ELSE Digits(n \div 10) \o <<48 + (n % 10)>>

\* What fprintf(file, "%d", v) writes.
FormatInt(v) == IF v < 0 THEN <<45>> \o Digits(0 - v) ELSE Digits(v)

\* isspace and isdigit in the C locale.
IsSpace(c) == c \in {32, 9, 10, 11, 12, 13}
IsDigit(c) == c \in 48..57

RECURSIVE SkipSpace(_, _)
\* The first position of q from i on that holds no white space.
SkipSpace(q, i) == IF i <= Len(q) /\ IsSpace(q[i]) THEN SkipSpace(q, i + 1) ELSE i

RECURSIVE ScanDigits(_, _, _)
\* The run of digits of q from i on: its value and the position after it.
ScanDigits(q, i, v) ==
    IF i <= Len(q) /\ IsDigit(q[i]) THEN ScanDigits(q, i + 1, 10 * v + q[i] - 48)
    ELSE [value |-> v, next |-> i]

\* The "%d" conversion of fscanf and sscanf on q from position i: white space
\* is skipped, then an optional sign and at least one digit are read.
ScanInt(q, i) ==
    LET j == SkipSpace(q, i)
        signed == j <= Len(q) /\ q[j] \in {43, 45}
        k == IF signed THEN j + 1 ELSE j
        d == ScanDigits(q, k, 0)
    IN IF d.next = k THEN [ok |-> FALSE, value |-> 0, next |-> i]
       ELSE [ok |-> TRUE,
             value |-> IF signed /\ q[j] = 45 THEN 0 - d.value ELSE d.value,
             next |-> d.next]

RECURSIVE SaveTextLoop(_, _, _, _, _)
\* The while loop of the text branch of save_to_file: "%d" for an int, "%c"
\* for a char, and the separator after every element but the last.
SaveTextLoop(s, list, current, separator, file) ==
    IF current = s.lists[list].tail THEN file
    ELSE LET val == s.blk[s.node[current].data].val
             text == IF s.lists[list].element_size = SizeofInt THEN FormatInt(val)
                     ELSE <<val % 256>>
             next_node == s.node[current].next
         IN SaveTextLoop(s, list, next_node, separator,
                         file \o text \o (IF next_node # s.lists[list].tail THEN separator
                                          ELSE <<>>))

\* save_to_file with format == FILE_FORMAT_TEXT (opens: fopen(filename, "w")
\* succeeds): a NULL separator is "\n", and a final newline is written when
\* the separator does not end in one.
save_to_file_text(s, list, filename, separator, opens) ==
    IF list = NULLP \/ filename = NULLP THEN Ret(s, LIST_ERROR_NULL_POINTER)
    ELSE IF ~opens THEN Ret(s, LIST_ERROR_INVALID_OPERATION)
    ELSE LET sep == IF separator.null THEN <<10>> ELSE separator.chars
             body == SaveTextLoop(s, list, s.node[s.lists[list].head].next, sep, <<>>)
             file == IF sep = <<>> \/ sep[Len(sep)] # 10 THEN body \o <<10>> ELSE body
         IN Ret([s EXCEPT !.fs = Put(s.fs, filename, file)], LIST_SUCCESS)

RECURSIVE ScanIntLoop(_, _, _, _)
\* while (fscanf(file, "%d", &value) == 1) insert_tail_value_internal(...)
ScanIntLoop(s, list, file, pos) ==
    LET v == ScanInt(file, pos)
    IN IF ~v.ok THEN [st |-> s, list |-> list]
       ELSE LET r == insert_tail_value_internal(s, list, v.value, TRUE)
            IN IF r.rc # LIST_SUCCESS THEN [st |-> destroy(r.st, list), list |-> NULLP]
               ELSE ScanIntLoop(r.st, list, file, v.next)

RECURSIVE ReadCharLoop(_, _, _, _)
\* while ((c = fgetc(file)) != EOF): '\n' and '\r' are passed over, any other
\* character becomes an element.
ReadCharLoop(s, list, file, pos) ==
    IF pos > Len(file) THEN [st |-> s, list |-> list]
    ELSE IF file[pos] \in {10, 13} THEN ReadCharLoop(s, list, file, pos + 1)
    ELSE LET r == insert_tail_value_internal(s, list, ElementOf(<<file[pos]>>), TRUE)
         IN IF r.rc # LIST_SUCCESS THEN [st |-> destroy(r.st, list), list |-> NULLP]
            ELSE ReadCharLoop(r.st, list, file, pos + 1)

RECURSIVE CString(_)
\* The string a buffer holds: its characters before the first NUL.
CString(q) == IF q = <<>> \/ Head(q) = 0 THEN <<>> ELSE <<Head(q)>> \o CString(Tail(q))

RECURSIVE StrStr(_, _, _)
\* strstr(start, separator): the first position from start on at which
\* separator occurs in content, 0 for NULL.
StrStr(content, start, separator) ==
    IF start + Len(separator) - 1 > Len(content) THEN 0
    ELSE IF SubSeq(content, start, start + Len(separator) - 1) = separator THEN start
    ELSE StrStr(content, start + 1, separator)

\* What the custom-separator loader does with one token: an int is read with
\* sscanf "%d" and inserted if that succeeds, a char list takes the token's
\* first character; an empty token is passed over.
InsertToken(s, list, token) ==
    IF token = <<>> THEN Ret(s, LIST_SUCCESS)
    ELSE IF s.lists[list].element_size = SizeofInt
    THEN LET v == ScanInt(token, 1)
         IN IF v.ok THEN insert_tail_value_internal(s, list, v.value, TRUE)
            ELSE Ret(s, LIST_SUCCESS)
    ELSE insert_tail_value_internal(s, list, ElementOf(<<token[1]>>), TRUE)

RECURSIVE SplitLoop(_, _, _, _, _)
\* while ((pos = strstr(start, separator)) != NULL) { token; start = pos +
\* sep_len; } and the last token after the final separator.
SplitLoop(s, list, content, start, separator) ==
    LET pos == StrStr(content, start, separator)
        token == SubSeq(content, start, IF pos # 0 THEN pos - 1 ELSE Len(content))
        r == InsertToken(s, list, token)
    IN IF r.rc # LIST_SUCCESS THEN [st |-> destroy(r.st, list), list |-> NULLP]
       ELSE IF pos # 0 THEN SplitLoop(r.st, list, content, pos + Len(separator), separator)
       ELSE [st |-> r.st, list |-> list]

\* load_from_file with format == FILE_FORMAT_TEXT: fopen(filename, "r") fails
\* for a file that does not exist; a NULL or empty separator selects the
\* white-space parsing, any other one the split at the exact separator.
load_from_file_text(s, filename, element_size, separator, print_fn, free_fn, copy_fn) ==
    IF filename = NULLP THEN [st |-> s, list |-> NULLP]
    ELSE IF filename \notin DOMAIN s.fs THEN [st |-> s, list |-> NULLP]
    ELSE LET file == s.fs[filename]
             c == create_list(s, element_size)
             s1 == IF print_fn THEN set_print_function(c.st, c.list, print_fn) ELSE c.st
             s2 == IF free_fn THEN set_free_function(s1, c.list, free_fn) ELSE s1
             s3 == IF copy_fn THEN set_copy_function(s2, c.list, copy_fn) ELSE s2
         IN IF separator.null \/ separator.chars = <<>>
            THEN IF element_size = SizeofInt THEN ScanIntLoop(s3, c.list, file, 1)
                 ELSE ReadCharLoop(s3, c.list, file, 1)
            ELSE SplitLoop(s3, c.list, CString(file), 1, separator.chars)

\* ------------------------------------------------------------ observation
RECURSIVE WalkNext(_, _, _, _)
\* The nodes met following next from n up to (not including) stop, at most
\* fuel of them: a broken chain gives a walk that does not end at stop.
WalkNext(s, n, stop, fuel) ==
    IF n = stop \/ n = NULLP \/ fuel = 0 \/ n \notin DOMAIN s.node THEN <<>>
    ELSE <<n>> \o WalkNext(s, s.node[n].next, stop, fuel - 1)

RECURSIVE WalkPrev(_, _, _, _)
WalkPrev(s, n, stop, fuel) ==
    IF n = stop \/ n = NULLP \/ fuel = 0 \/ n \notin DOMAIN s.node THEN <<>>
    ELSE <<n>> \o WalkPrev(s, s.node[n].prev, stop, fuel - 1)

\* The real nodes from head->next to the tail sentinel.
Chain(s, l) ==
    WalkNext(s, s.node[s.lists[l].head].next, s.lists[l].tail, Cardinality(DOMAIN s.node))

\* The element blocks in list order, and their payloads.
Elems(s, l) == LET c == Chain(s, l) IN [i \in 1..Len(c) |-> s.node[c[i]].data]
Vals(s, l) == LET e == Elems(s, l) IN [i \in 1..Len(e) |-> s.blk[e[i]].val]

\* The real nodes from tail->prev back to the head sentinel.
ChainBack(s, l) ==
    WalkPrev(s, s.node[s.lists[l].tail].prev, s.lists[l].head, Cardinality(DOMAIN s.node))

\* The node after the last node of the forward walk: the tail sentinel in a
\* chain that is closed.
ChainEnd(s, l) ==
    LET c == Chain(s, l)
    IN IF c = <<>> THEN s.node[s.lists[l].head].next ELSE s.node[c[Len(c)]].next

\* The element blocks met walking back from the tail.
ElemsBack(s, l) == LET c == ChainBack(s, l) IN [i \in 1..Len(c) |-> s.node[c[i]].data]

\* q with x put after its first j elements.
Ins(q, j, x) == SubSeq(q, 1, j) \o <<x>> \o SubSeq(q, j + 1, Len(q))

Range(q) == {q[i] : i \in 1..Len(q)}

\* A sequence backwards.
Rev(q) == [i \in 1..Len(q) |-> q[Len(q) + 1 - i]]

\* ------------------------------------------------------------------ state
VARIABLES
    st,      \* the memory
    result,  \* the code the last call returned
    op       \* the last call: its name and its index / amount argument

vars == <<st, result, op>>

Op(name, arg) == [name |-> name, arg |-> arg]

\* A block passed to free() twice: undefined behaviour, after which nothing more
\* is said about the program.
DoubleFree(s) == \E b \in DOMAIN s.blk : s.blk[b].frees + s.blk[b].cfrees > 1

CanAlloc == Cardinality(DOMAIN st.blk) < MaxAlloc
Alive == L1 \in DOMAIN st.lists /\ ~DoubleFree(st)

\* The calls' inputs. Allocations succeed.
Mem == {TRUE}
Indices == 0..MaxIdx
Predicates == {Predicate(FALSE, sat) : sat \in SUBSET Values}
Counts == {DELETE_ALL_OCCURRENCES} \cup (1..MaxCount)
Directions == {START_FROM_HEAD, START_FROM_TAIL}
Rotations == (0 - MaxRot)..MaxRot
Capacities == 1..MaxCap

\* After create_list and the optional set_free_function.
Init ==
    /\ \E f \in BOOLEAN : st = set_free_function(Created, L1, f)
    /\ result = LIST_SUCCESS
    /\ op = Op("create_list", 0)

Apply(r, name, arg) ==
    /\ st' = r.st
    /\ result' = r.rc
    /\ op' = Op(name, arg)

InsertHeadValue ==
    /\ Alive /\ CanAlloc
    /\ \E v \in Values, mem \in Mem :
          Apply(insert_head_value_internal(st, L1, v, mem), "insert_head_value", 0)

InsertTailValue ==
    /\ Alive /\ CanAlloc
    /\ \E v \in Values, mem \in Mem :
          Apply(insert_tail_value_internal(st, L1, v, mem), "insert_tail_value", 0)

InsertIndexValue ==
    /\ Alive /\ CanAlloc
    /\ \E i \in Indices, v \in Values, mem \in Mem :
          Apply(insert_index_value_internal(st, L1, i, v, mem), "insert_index_value", i)

InsertHeadPtr ==
    /\ Alive /\ CanAlloc
    /\ \E v \in Values, mem \in Mem :
          Apply(insert_head_ptr(st, L1, v, mem), "insert_head_ptr", 0)

InsertTailPtr ==
    /\ Alive /\ CanAlloc
    /\ \E v \in Values, mem \in Mem :
          Apply(insert_tail_ptr(st, L1, v, mem), "insert_tail_ptr", 0)

InsertIndexPtr ==
    /\ Alive /\ CanAlloc
    /\ \E i \in Indices, v \in Values, mem \in Mem :
          Apply(insert_index_ptr(st, L1, i, v, mem), "insert_index_ptr", i)

DeleteHead == Alive /\ Apply(delete_head(st, L1), "delete_head", 0)

DeleteTail == Alive /\ Apply(delete_tail(st, L1), "delete_tail", 0)

DeleteIndex ==
    /\ Alive
    /\ \E i \in Indices : Apply(delete_index(st, L1, i), "delete_index", i)

RemoveAdvanced ==
    /\ Alive
    /\ \E c \in Counts, d \in Directions, p \in Predicates :
          Apply(remove_advanced(st, L1, c, d, p), "remove_advanced", 0)

Clear == Alive /\ Apply(clear(st, L1), "clear", 0)

Reverse == Alive /\ Apply(reverse(st, L1), "reverse", 0)

Rotate ==
    /\ Alive
    /\ \E k \in Rotations : Apply(rotate(st, L1, k), "rotate", k)

SetMaxSize ==
    /\ Alive
    /\ \E m \in Capacities, b \in BOOLEAN :
          Apply(set_max_size(st, L1, m, b), "set_max_size", m)

\* set_max_size(list, m, DELETE_OLD_WHEN_FULL)
SetMaxSizeEvict ==
    /\ Alive
    /\ \E m \in Capacities :
          Apply(set_max_size(st, L1, m, DELETE_OLD_WHEN_FULL), "set_max_size", m)

Destroy ==
    /\ Alive
    /\ st' = destroy(st, L1)
    /\ result' = LIST_SUCCESS
    /\ op' = Op("destroy", 0)

\* The caller passes a block it put into the list in pointer mode to free(), as
\* demo_modes.c does with charlie and diana before destroy(ptr_list).
CallerFree ==
    /\ ~DoubleFree(st)
    /\ \E b \in DOMAIN st.blk :
          /\ st.blk[b].via = "caller"
          /\ st.blk[b].cfrees = 0
          /\ st' = [st EXCEPT !.blk[b].cfrees = @ + 1]
          /\ result' = result
          /\ op' = Op("free", b)

\* Every mutation of one list of unlimited capacity.
Next ==
    \/ InsertHeadValue
    \/ InsertTailValue
    \/ InsertIndexValue
    \/ InsertHeadPtr
    \/ InsertTailPtr
    \/ InsertIndexPtr
    \/ DeleteHead
    \/ DeleteTail
    \/ DeleteIndex
    \/ RemoveAdvanced
    \/ Clear
    \/ Reverse
    \/ Rotate
    \/ Destroy

Spec == Init /\ [][Next]_vars

\* Insertions into a list whose capacity is set, and set again, at any time.
NextCap ==
    \/ InsertHeadValue
    \/ InsertTailValue
    \/ InsertIndexValue
    \/ InsertHeadPtr
    \/ InsertTailPtr
    \/ InsertIndexPtr
    \/ SetMaxSize

SpecCap == Init /\ [][NextCap]_vars

\* Tail insertions into an empty list configured to evict the oldest element.
InitFifo ==
    /\ \E f \in BOOLEAN, m \in Capacities :
          st = set_max_size(set_free_function(Created, L1, f),
                            L1, m, DELETE_OLD_WHEN_FULL).st
    /\ result = LIST_SUCCESS
    /\ op = Op("set_max_size", 0)

NextFifo ==
    \/ InsertTailValue
    \/ InsertTailPtr

SpecFifo == InitFifo /\ [][NextFifo]_vars

\* Insertions, every way an element leaves the list, and the final destroy.
NextOwn ==
    \/ InsertHeadValue
    \/ InsertTailValue
    \/ InsertIndexValue
    \/ InsertHeadPtr
    \/ InsertTailPtr
    \/ InsertIndexPtr
    \/ DeleteHead
    \/ DeleteTail
    \/ DeleteIndex
    \/ RemoveAdvanced
    \/ Clear
    \/ SetMaxSizeEvict
    \/ Destroy

SpecOwn == Init /\ [][NextOwn]_vars

\* Value insertions into a list whose copy callback may be set.
InitCopy ==
    /\ \E f \in BOOLEAN, c \in BOOLEAN :
          st = set_copy_function(set_free_function(Created, L1, f), L1, c)
    /\ result = LIST_SUCCESS
    /\ op = Op("create_list", 0)

NextCopy ==
    \/ InsertHeadValue
    \/ InsertTailValue
    \/ InsertIndexValue
    \/ DeleteHead

SpecCopy == InitCopy /\ [][NextCopy]_vars

\* The pointer-mode usage of demo_modes.c: the caller allocates the blocks,
\* inserts them, frees them itself and destroys the list.
NextModes ==
    \/ InsertHeadPtr
    \/ InsertTailPtr
    \/ InsertIndexPtr
    \/ DeleteHead
    \/ DeleteTail
    \/ CallerFree
    \/ Destroy

SpecModes == Init /\ [][NextModes]_vars

\* Insertions and deletions by index.
NextIndex ==
    \/ InsertIndexValue
    \/ InsertIndexPtr
    \/ DeleteIndex

SpecIndex == Init /\ [][NextIndex]_vars

\* ---------------------------------------------- two lists and a comparator
\* The second list a program creates.
L2 == create_list(Created, SizeofInt).list

RECURSIVE Filled(_, _, _)
\* The memory after insert_tail_value(l, x) for each x of q in turn.
Filled(s, l, q) ==
    IF q = <<>> THEN s
    ELSE Filled(insert_tail_value_internal(s, l, Head(q), TRUE).st, l, Tail(q))

Elements == 1..MaxElem
SeqsUpTo(S, n) == UNION {[1..k -> S] : k \in 0..n}

\* compare_int, and a comparison by parity (an equivalence coarser than
\* equality).
compare_int == CompareFunction(FALSE, [v \in Elements |-> v])
compare_parity == CompareFunction(FALSE, [v \in Elements |-> v % 2])
Comparators == {compare_int, compare_parity}

\* Two lists of integers, filled at the tail.
InitSets ==
    /\ \E a \in SeqsUpTo(Elements, MaxLenA), b \in SeqsUpTo(Elements, MaxLenB) :
          st = Filled(Filled(create_list(Created, SizeofInt).st, L1, a), L2, b)
    /\ result = LIST_SUCCESS
    /\ op = Op("insert_tail_value", 0)

\* No list has been derived from the two yet.
Underived == DOMAIN st.lists = {L1, L2}

\* A call returning a new list (or NULL).
ApplyNew(r, name) ==
    /\ st' = r.st
    /\ result' = r.list
    /\ op' = Op(name, 0)

Unique ==
    /\ Underived
    /\ \E l \in {L1, L2}, c \in Comparators : ApplyNew(unique(st, l, c), "unique")

UniqueAdvanced ==
    /\ Underived
    /\ \E c \in Comparators, d \in Directions :
          ApplyNew(unique_advanced(st, L1, c, d), "unique_advanced")

Intersection ==
    /\ Underived
    /\ \E c \in Comparators : ApplyNew(intersection(st, L1, L2, c), "intersection")

UnionLists ==
    /\ Underived
    /\ \E c \in Comparators : ApplyNew(union_lists(st, L1, L2, c), "union_lists")

NextSets ==
    \/ Unique
    \/ UniqueAdvanced
    \/ Intersection
    \/ UnionLists

SpecSets == InitSets /\ [][NextSets]_vars

\* ------------------------------------------------------- NULL arguments
\* A call of the named operation and what it returns.
Call(name, r) == [name |-> name, r |-> r]

\* Every result-code-returning operation called with a NULL list handle.
NullHandleCalls(s) ==
    {Call("set_max_size(NULL)", set_max_size(s, NULLP, m, b)) :
        m \in Capacities, b \in BOOLEAN}
    \cup {Call("insert_head_value(NULL)", insert_head_value_internal(s, NULLP, v, TRUE)) :
        v \in Values}
    \cup {Call("insert_tail_value(NULL)", insert_tail_value_internal(s, NULLP, v, TRUE)) :
        v \in Values}
    \cup {Call("insert_index_value(NULL)", insert_index_value_internal(s, NULLP, i, v, TRUE)) :
        i \in Indices, v \in Values}
    \cup {Call("insert_head_ptr(NULL)", insert_head_ptr(s, NULLP, v, TRUE)) : v \in Values}
    \cup {Call("insert_tail_ptr(NULL)", insert_tail_ptr(s, NULLP, v, TRUE)) : v \in Values}
    \cup {Call("insert_index_ptr(NULL)", insert_index_ptr(s, NULLP, i, v, TRUE)) :
        i \in Indices, v \in Values}
    \cup {Call("delete_head(NULL)", delete_head(s, NULLP)),
          Call("delete_tail(NULL)", delete_tail(s, NULLP)),
          Call("clear(NULL)", clear(s, NULLP)),
          Call("reverse(NULL)", reverse(s, NULLP)),
          Call("sort_list(NULL)", sort_list(s, NULLP, CompareFunction(FALSE, [v \in Values |-> v]))),
          Call("extend(NULL)", extend(s, NULLP, L1)),
          Call("from_array(NULL)", from_array(s, NULLP, Array(FALSE, <<1>>), 1))}
    \cup {Call("delete_index(NULL)", delete_index(s, NULLP, i)) : i \in Indices}
    \cup {Call("remove_advanced(NULL)", remove_advanced(s, NULLP, c, d, p)) :
        c \in Counts, d \in Directions, p \in Predicates}
    \cup {Call("rotate(NULL)", rotate(s, NULLP, k)) : k \in Rotations}

\* Every insertion into the list called with NULL element data.
NullDataCalls(s) ==
    {Call("insert_head_value(data NULL)", insert_head_value_internal(s, L1, NULLP, TRUE)),
     Call("insert_tail_value(data NULL)", insert_tail_value_internal(s, L1, NULLP, TRUE)),
     Call("insert_head_ptr(data NULL)", insert_head_ptr(s, L1, NULLP, TRUE)),
     Call("insert_tail_ptr(data NULL)", insert_tail_ptr(s, L1, NULLP, TRUE))}
    \cup {Call("insert_index_value(data NULL)",
               insert_index_value_internal(s, L1, i, NULLP, TRUE)) : i \in Indices}
    \cup {Call("insert_index_ptr(data NULL)", insert_index_ptr(s, L1, i, NULLP, TRUE)) :
             i \in Indices}

\* What the caller can see of a call: its result, or, when the call read
\* through NULL, any returned code, or a fault that ends the process and
\* leaves none of its memory.
Outcomes(r) ==
    IF r.rc = NULL_DEREFERENCE
    THEN {Ret(r.st, rc) : rc \in Range(ListResult)} \cup {Ret(EmptyMemory, SIGSEGV)}
    ELSE {r}

NullHandleCall ==
    /\ Alive
    /\ \E c \in NullHandleCalls(st) : \E o \in Outcomes(c.r) : Apply(o, c.name, 0)

NullDataInsert ==
    /\ Alive
    /\ \E c \in NullDataCalls(st) : \E o \in Outcomes(c.r) : Apply(o, c.name, 0)

\* NULL passed for a callback the operation needs.
NoPredicate == Predicate(TRUE, {})
NoComparator == CompareFunction(TRUE, <<>>)

RemoveAdvancedNoPredicate ==
    /\ Alive
    /\ \E c \in Counts, d \in Directions :
          Apply(remove_advanced(st, L1, c, d, NoPredicate), "remove_advanced(, NULL)", 0)

\* index_of and index_of_advanced return an int: the index or a negated code.
IndexOfNoPredicate ==
    /\ Alive
    /\ \E d \in Directions :
          /\ st' = st
          /\ result' = index_of_advanced(st, L1, d, NoPredicate)
          /\ op' = Op("index_of_advanced(, NULL)", 0)

SortListNoComparator ==
    /\ Alive
    /\ Apply(sort_list(st, L1, NoComparator), "sort_list(, NULL)", 0)

\* Calls with NULL arguments between insertions and deletions.
NextNull ==
    \/ InsertTailValue
    \/ InsertHeadPtr
    \/ DeleteHead
    \/ NullHandleCall
    \/ NullDataInsert
    \/ RemoveAdvancedNoPredicate
    \/ IndexOfNoPredicate
    \/ SortListNoComparator

SpecNull == Init /\ [][NextNull]_vars


\* ------------------------------------------------------ array round trip
\* The arrays a caller passes: up to MaxArr elements, of which the first n are
\* read.
Arrays == {Array(FALSE, q) : q \in SeqsUpTo(Values, MaxArr)}

FromArray ==
    /\ Alive /\ CanAlloc
    /\ \E arr \in Arrays : \E n \in 0..Len(arr.elems) :
          Apply(from_array(st, L1, arr, n), "from_array", n)

\* to_array leaves the list alone; the call reports *out_size.
ToArray ==
    /\ Alive
    /\ st' = st
    /\ result' = to_array(st, L1, TRUE).out_size
    /\ op' = Op("to_array", 0)

NextArrays ==
    \/ InsertTailValue
    \/ InsertHeadPtr
    \/ DeleteHead
    \/ FromArray
    \/ ToArray

SpecArrays == Init /\ [][NextArrays]_vars


\* ------------------------------------------------------ binary round trip
Filenames == 1..MaxFiles

SaveToFile ==
    /\ Alive
    /\ \E f \in Filenames, opens \in BOOLEAN :
          Apply(save_to_file_binary(st, L1, f, opens), "save_to_file", f)

\* The caller gets the new list's handle, or NULL.
LoadFromFile ==
    /\ Alive /\ Cardinality(DOMAIN st.lists) = 1
    /\ \E f \in Filenames, element_size \in {SizeofInt, SizeofSizeT} :
          LET r == load_from_file_binary(st, f, element_size, FALSE, FALSE, FALSE)
          IN /\ st' = r.st
             /\ result' = r.list
             /\ op' = Op("load_from_file", f)

NextFiles ==
    \/ InsertTailValue
    \/ InsertHeadPtr
    \/ DeleteHead
    \/ SaveToFile
    \/ LoadFromFile

SpecFiles == Init /\ [][NextFiles]_vars


\* ------------------------------------------------- lists derived from one
\* A list whose print, free and copy callbacks may each be set.
InitDerive ==
    /\ \E p \in BOOLEAN, f \in BOOLEAN, c \in BOOLEAN :
          st = set_copy_function(
                   set_free_function(set_print_function(Created, L1, p), L1, f), L1, c)
    /\ result = LIST_SUCCESS
    /\ op = Op("create_list", 0)

\* Only the source list exists, and there is room for its copies.
CanDerive == Alive /\ DOMAIN st.lists = {L1} /\ Cardinality(DOMAIN st.blk) <= MaxAlloc

map_add_ten == MapFunction(FALSE, [v \in Values |-> v + 10])
map_to_one == MapFunction(FALSE, [v \in Values |-> 1])
MapFunctions == {map_add_ten, map_to_one}
NewSizes == {SizeofInt, SizeofChar}

Copy == CanDerive /\ ApplyNew(copy(st, L1), "copy")

Concat == CanDerive /\ ApplyNew(concat(st, L1, L1), "concat")

Slice ==
    /\ CanDerive
    /\ \E start \in Indices, end \in Indices : ApplyNew(slice(st, L1, start, end), "slice")

Filter ==
    /\ CanDerive
    /\ \E filter_fn \in Predicates : ApplyNew(filter(st, L1, filter_fn), "filter")

Map ==
    /\ CanDerive
    /\ \E map_fn \in MapFunctions, new_element_size \in NewSizes :
          LET r == map(st, L1, map_fn, new_element_size)
          IN /\ st' = r.st
             /\ result' = r.list
             /\ op' = Op("map", new_element_size)

\* destroy of the derived list.
DestroyDerived ==
    /\ Alive
    /\ \E l \in DOMAIN st.lists \ {L1} :
          /\ st' = destroy(st, l)
          /\ result' = NULLP
          /\ op' = Op("destroy", l)

NextDerive ==
    \/ InsertTailValue
    \/ InsertHeadPtr
    \/ Copy
    \/ Concat
    \/ Slice
    \/ Filter
    \/ Map
    \/ DestroyDerived

SpecDerive == InitDerive /\ [][NextDerive]_vars


\* ---------------------------------------------------------------- sorting
\* A comparison in descending order of the payload.
compare_descending == CompareFunction(FALSE, [v \in Elements |-> 0 - v])
SortComparators == Comparators \cup {compare_descending}

\* One list of integers, filled at the tail.
InitSort ==
    /\ \E a \in SeqsUpTo(Elements, MaxLenA) : st = Filled(Created, L1, a)
    /\ result = LIST_SUCCESS
    /\ op = Op("insert_tail_value", 0)

SortList ==
    /\ Alive
    /\ \E c \in SortComparators : Apply(sort_list(st, L1, c), "sort_list", 0)

NextSort ==
    \/ SortList
    \/ Reverse
    \/ DeleteHead

SpecSort == InitSort /\ [][NextSort]_vars


\* ------------------------------------------------- every in-place operation
NextChain ==
    \/ Next
    \/ SortList

SpecChain == Init /\ [][NextChain]_vars


\* ------------------------------------------------------ removal by predicate
NextRemove ==
    \/ RemoveAdvanced
    \/ Reverse

SpecRemove == InitSort /\ [][NextRemove]_vars


\* ---------------------------------------------------------------- extend
\* Two short lists of integers, filled at the tail.
InitExtend ==
    /\ \E a \in SeqsUpTo(Values, MaxLenB), b \in SeqsUpTo(Values, MaxLenB) :
          st = Filled(Filled(create_list(Created, SizeofInt).st, L1, a), L2, b)
    /\ result = LIST_SUCCESS
    /\ op = Op("insert_tail_value", 0)

\* extend of either list with either list, itself included.
Extend ==
    /\ Underived /\ Cardinality(DOMAIN st.blk) <= 2 * MaxLenB
    /\ \E list \in {L1, L2}, other \in {L1, L2} :
          Apply(extend(st, list, other), "extend", IF list = other THEN 1 ELSE 0)

NextExtend ==
    \/ Extend
    \/ DeleteHead

SpecExtend == InitExtend /\ [][NextExtend]_vars


\* ---------------------------------------------------- shrinking the limit
\* A filled list whose limit is set, with eviction, below, at and above its
\* length.
SetMaxSizeOnFilled ==
    /\ Alive
    /\ \E m \in 1..(MaxLenA + 1) :
          Apply(set_max_size(st, L1, m, DELETE_OLD_WHEN_FULL), "set_max_size", m)

NextEvict ==
    \/ SetMaxSizeOnFilled
    \/ Reverse

SpecEvict == InitSort /\ [][NextEvict]_vars


\* --------------------------------------------------------------- searching
\* index_of_advanced on a filled list; the result is the index or the negated
\* code, and the memory stays as it is (the list is const to the call).
IndexOfAdvanced ==
    /\ Alive
    /\ \E d \in Directions, p \in Predicates :
          /\ result' = index_of_advanced(st, L1, d, p)
          /\ op' = Op("index_of_advanced", IF d = START_FROM_TAIL THEN 1 ELSE 0)
          /\ UNCHANGED st

NextFind ==
    \/ IndexOfAdvanced
    \/ Reverse
    \/ DeleteHead

SpecFind == InitSort /\ [][NextFind]_vars


\* ------------------------------------------------------- text round trips
\* The payloads of the int lists and of the char lists saved as text: the
\* characters are '\n', ',' and 'a'.
IntValues == {0 - 12, 7, 305}
CharValues == {10, 44, 97}
\* No separator, "," and ", ".
Separators == <<Separator(TRUE, <<>>), Separator(FALSE, <<44>>), Separator(FALSE, <<44, 32>>)>>

\* One list of ints or of chars, filled at the tail.
InitText ==
    /\ \/ \E a \in SeqsUpTo(IntValues, MaxLenB) :
             st = Filled(create_list(EmptyMemory, SizeofInt).st, L1, a)
       \/ \E a \in SeqsUpTo(CharValues, MaxLenB) :
             st = Filled(create_list(EmptyMemory, SizeofChar).st, L1, a)
    /\ result = LIST_SUCCESS
    /\ op = Op("insert_tail_value", 0)

\* save_to_file(list, f, FILE_FORMAT_TEXT, separator)
SaveToFileText ==
    /\ Alive /\ Cardinality(DOMAIN st.lists) = 1
    /\ \E f \in Filenames, i \in DOMAIN Separators :
          Apply(save_to_file_text(st, L1, f, Separators[i], TRUE), "save_to_file", i)

\* load_from_file(f, element_size, FILE_FORMAT_TEXT, separator, ...): the
\* caller gets the new list's handle, or NULL.
LoadFromFileText ==
    /\ Alive /\ Cardinality(DOMAIN st.lists) = 1
    /\ \E f \in Filenames, i \in DOMAIN Separators :
          LET r == load_from_file_text(st, f, st.lists[L1].element_size, Separators[i],
                                       FALSE, FALSE, FALSE)
          IN /\ st' = r.st
             /\ result' = r.list
             /\ op' = Op("load_from_file", i)

NextText ==
    \/ SaveToFileText
    \/ LoadFromFileText
    \/ DeleteHead

SpecText == InitText /\ [][NextText]_vars

\* ------------------------------------------------------------------ claims
Live == L1 \in DOMAIN st.lists

\* C1: after any sequence of insertions, deletions, remove_advanced and clear,
\* get_length equals the number of real nodes between head->next and the tail
\* sentinel, and is_empty holds exactly when get_length is 0.
C1_LengthCountsNodes ==
    Live =>
        /\ ChainEnd(st, L1) = st.lists[L1].tail
        /\ get_length(st, L1) = Len(Chain(st, L1))
        /\ is_empty(st, L1) <=> (get_length(st, L1) = 0)
        /\ is_empty(st, L1) <=> (Chain(st, L1) = <<>>)

\* A removal by predicate that succeeded and left elements behind.
C1_Witness ==
    /\ Live
    /\ op.name = "remove_advanced"
    /\ result = LIST_SUCCESS
    /\ get_length(st, L1) = 2

\* C2: with max_size >= 1 and the evict-oldest policy set by set_max_size, the
\* length does not exceed max_size after any later insertion has returned.
C2_EvictKeepsLengthWithinMax ==
    (Live /\ st.lists[L1].max_size >= 1
          /\ st.lists[L1].allow_overwrite = DELETE_OLD_WHEN_FULL)
        => get_length(st, L1) <= st.lists[L1].max_size

\* C3: N + m tail insertions into an empty list of capacity N with the
\* evict-oldest policy leave exactly the last N inserted elements, in insertion
\* order (blocks are numbered in the order they were inserted).
C3_FifoKeepsLastN ==
    LET n == Cardinality(DOMAIN st.blk)
        N == st.lists[L1].max_size
    IN n >= N =>
        /\ get_length(st, L1) = N
        /\ Elems(st, L1) = [i \in 1..N |-> n - N + i]

\* C4: under the reject policy an insertion attempted while length = max_size
\* returns the list-full error and leaves the length and the elements as they
\* were.
C4_RejectWhenFull ==
    [][(/\ Live
        /\ st.lists[L1].max_size >= 1
        /\ st.lists[L1].allow_overwrite = REJECT_NEW_WHEN_FULL
        /\ get_length(st, L1) = st.lists[L1].max_size
        /\ op'.name # "set_max_size")
       => (/\ result' = LIST_ERROR_LIST_FULL
           /\ get_length(st', L1) = get_length(st, L1)
           /\ Elems(st', L1) = Elems(st, L1))]_vars

\* The element blocks linked into the list (none once it is destroyed).
Linked == IF Live THEN {Elems(st, L1)[i] : i \in 1..Len(Elems(st, L1))} ELSE {}

C6_ValueInsertUsesCopyCallback ==
    (Live /\ st.lists[L1].copy_node_function) =>
        \A b \in DOMAIN st.blk : st.blk[b].via # "caller" => st.blk[b].via = "copy_fn"

\* C7: the list never releases a block the caller supplied in pointer mode, so
\* with the caller freeing each block itself no block is passed to free() twice.
C7_PointerBlocksLeftToCaller ==
    \A b \in DOMAIN st.blk :
        st.blk[b].via = "caller" => st.blk[b].frees = 0 /\ st.blk[b].cfrees <= 1

\* What C8 asks of one indexed insertion r into the memory s, and of the head
\* or tail insertion (h, t) of the same element.
PlacedAt(s, r, h, t, i, v) ==
    LET E == Elems(s, L1)
        n == Len(E)
        a == Fresh(s)
        R == Elems(r.st, L1)
    IN /\ r.rc = LIST_SUCCESS
       /\ R = Ins(E, IF i >= n THEN n ELSE i, a)
       /\ ElemsBack(r.st, L1) = Rev(R)
       /\ get_length(r.st, L1) = n + 1
       /\ r.st.blk[a].val = v
       /\ \A b \in DOMAIN s.blk : r.st.blk[b] = s.blk[b]
       /\ i = 0 => r.st = h.st
       /\ i >= n => r.st = t.st

\* C8: for both the value and the pointer variant, inserting at index 0 gives
\* the list insert-at-head gives, inserting at an index >= length the list
\* insert-at-tail gives, and inserting at 0 < index < length puts the element at
\* that position, keeps the positions before it and shifts the rest up by one.
\* Tried on every reachable list and on it grown by up to MaxGrow elements, so
\* that both walks of the indexed insertion take steps.
C8_InsertIndexPlacement ==
    Live =>
        \A k \in 0..MaxGrow, i \in 0..(MaxIdx + MaxGrow), v \in Values :
            LET s == Extended(st, L1, k)
            IN /\ PlacedAt(s, insert_index_value_internal(s, L1, i, v, TRUE),
                           insert_head_value_internal(s, L1, v, TRUE),
                           insert_tail_value_internal(s, L1, v, TRUE), i, v)
               /\ PlacedAt(s, insert_index_ptr(s, L1, i, v, TRUE),
                           insert_head_ptr(s, L1, v, TRUE),
                           insert_tail_ptr(s, L1, v, TRUE), i, v)

\* An indexed pointer insertion that put the third element between two others.
C8_Witness ==
    /\ Live
    /\ op = Op("insert_index_ptr", 1)
    /\ result = LIST_SUCCESS
    /\ get_length(st, L1) = 3
    /\ Elems(st, L1)[2] = Fresh(st) - 1

\* C9: reverse leaves the elements in the reverse of their order, linked both
\* ways, with the length unchanged, and a second reverse restores the order;
\* empty and one-element lists included.
C9_ReverseReverses ==
    Live =>
        LET r == reverse(st, L1)
            rr == reverse(r.st, L1)
        IN /\ r.rc = LIST_SUCCESS
           /\ Elems(r.st, L1) = Rev(Elems(st, L1))
           /\ ElemsBack(r.st, L1) = Elems(st, L1)
           /\ ChainEnd(r.st, L1) = st.lists[L1].tail
           /\ get_length(r.st, L1) = get_length(st, L1)
           /\ r.st.blk = st.blk
           /\ rr.rc = LIST_SUCCESS
           /\ Elems(rr.st, L1) = Elems(st, L1)
           /\ ElemsBack(rr.st, L1) = Rev(Elems(st, L1))

\* reverse has turned the list [1, 2, 3] around.
C9_Witness ==
    /\ Live
    /\ op.name = "reverse"
    /\ result = LIST_SUCCESS
    /\ Elems(st, L1) = <<3, 2, 1>>

\* C10: for every k, rotate by k and then by -k restores the element order, and
\* a rotate changes neither the length nor the elements the list holds.
C10_RotateThereAndBack ==
    Live =>
        \A k \in Rotations :
            LET r1 == rotate(st, L1, k)
                r2 == rotate(r1.st, L1, 0 - k)
            IN /\ r1.rc = LIST_SUCCESS
               /\ get_length(r1.st, L1) = get_length(st, L1)
               /\ Len(Elems(r1.st, L1)) = Len(Elems(st, L1))
               /\ Range(Elems(r1.st, L1)) = Range(Elems(st, L1))
               /\ ElemsBack(r1.st, L1) = Rev(Elems(r1.st, L1))
               /\ r1.st.blk = st.blk
               /\ r2.rc = LIST_SUCCESS
               /\ Elems(r2.st, L1) = Elems(st, L1)
               /\ ElemsBack(r2.st, L1) = Rev(Elems(st, L1))

\* A rotation by a negative amount larger than the length has moved the two
\* elements of [1, 2].
C10_Witness ==
    /\ Live
    /\ op = Op("rotate", 0 - 3)
    /\ result = LIST_SUCCESS
    /\ Elems(st, L1) = <<2, 1>>
    /\ Cardinality(DOMAIN st.blk) = 2

\* C11: rotate by k with 0 < k < length moves the last k elements to the front
\* (a rotation to the right), and by -k the first k elements to the back.
C11_PositiveRotatesRight ==
    Live =>
        LET E == Elems(st, L1)
            n == Len(E)
        IN \A k \in 1..MaxRot :
              k < n =>
                 /\ Elems(rotate(st, L1, k).st, L1)
                      = SubSeq(E, n - k + 1, n) \o SubSeq(E, 1, n - k)
                 /\ Elems(rotate(st, L1, 0 - k).st, L1)
                      = SubSeq(E, k + 1, n) \o SubSeq(E, 1, k)

RECURSIVE Sel(_, _, _)
\* The elements of q at the positions of S, from position i on, in order.
Sel(q, S, i) ==
    IF i > Len(q) THEN <<>>
    ELSE (IF i \in S THEN <<q[i]>> ELSE <<>>) \o Sel(q, S, i + 1)

\* The positions of q whose element has no equal under key before it in q.
FirstOfClass(q, key) ==
    {i \in 1..Len(q) : \A j \in 1..(i - 1) : key[q[j]] # key[q[i]]}

\* The positions of q whose element has an equal under key in p.
HasEqualIn(q, p, key) ==
    {i \in 1..Len(q) : \E j \in 1..Len(p) : key[p[j]] = key[q[i]]}

\* Nothing that existed in s was changed on the way to t.
Untouched(s, t) ==
    /\ \A l \in DOMAIN s.lists : l \in DOMAIN t.lists /\ t.lists[l] = s.lists[l]
    /\ \A n \in DOMAIN s.node : n \in DOMAIN t.node /\ t.node[n] = s.node[n]
    /\ \A b \in DOMAIN s.blk : b \in DOMAIN t.blk /\ t.blk[b] = s.blk[b]

\* C12: with a comparator that is an equivalence test, unique applied to the
\* list unique returned gives the same elements in the same order.
C12_UniqueIdempotent ==
    Underived =>
        \A l \in {L1, L2}, c \in Comparators :
            LET u == unique(st, l, c)
                uu == unique(u.st, u.list, c)
            IN /\ u.list # NULLP /\ uu.list # NULLP
               /\ uu.list # u.list
               /\ ChainEnd(uu.st, uu.list) = uu.st.lists[uu.list].tail
               /\ Vals(uu.st, uu.list) = Vals(u.st, u.list)

\* unique has dropped a repeated element of a list of MaxLenA elements.
C12_Witness ==
    /\ op.name = "unique"
    /\ result # NULLP
    /\ Len(Vals(st, L1)) = MaxLenA
    /\ Len(Vals(st, result)) = 3
    /\ Vals(st, result) = Sel(Vals(st, L1), FirstOfClass(Vals(st, L1), compare_int.key), 1)

\* C13: intersection(A, B, c) returns a new list holding, in A's order, the
\* elements of A that compare equal to some element of B, one per class of
\* equal elements (A's first), and changes neither A nor B.
C13_IntersectionInOrderOfA ==
    Underived =>
        \A c \in Comparators :
            LET r == intersection(st, L1, L2, c)
                A == Vals(st, L1)
                B == Vals(st, L2)
            IN /\ r.list # NULLP
               /\ r.list \notin DOMAIN st.lists
               /\ ChainEnd(r.st, r.list) = r.st.lists[r.list].tail
               /\ get_length(r.st, r.list) = Len(Vals(r.st, r.list))
               /\ Vals(r.st, r.list)
                    = Sel(A, FirstOfClass(A, c.key) \cap HasEqualIn(A, B, c.key), 1)
               /\ Untouched(st, r.st)

\* The intersection of A = [1, 2, 2, 3] and B = [2, 3, 4] by compare_int.
C13_Witness ==
    /\ op.name = "intersection"
    /\ result # NULLP
    /\ Vals(st, L1) = <<1, 2, 2, 3>>
    /\ Vals(st, L2) = <<2, 3, 4>>
    /\ Vals(st, result) = <<2, 3>>

\* C14: union_lists(A, B, c) returns a new list that is unique(A, c) followed
\* by the elements of B, in B's order, equal to nothing already in the result;
\* no two of its elements compare equal, every element of A or B has an equal
\* in it, and A and B are unchanged.
C14_UnionIsUniqueAThenNewOfB ==
    Underived =>
        \A c \in Comparators :
            LET r == union_lists(st, L1, L2, c)
                u == unique(st, L1, c)
                A == Vals(st, L1)
                B == Vals(st, L2)
                R == Vals(r.st, r.list)
            IN /\ r.list # NULLP
               /\ r.list \notin DOMAIN st.lists
               /\ ChainEnd(r.st, r.list) = r.st.lists[r.list].tail
               /\ get_length(r.st, r.list) = Len(R)
               /\ R = Vals(u.st, u.list)
                        \o Sel(B, FirstOfClass(B, c.key) \ HasEqualIn(B, A, c.key), 1)
               /\ FirstOfClass(R, c.key) = 1..Len(R)
               /\ HasEqualIn(A, R, c.key) = 1..Len(A)
               /\ HasEqualIn(B, R, c.key) = 1..Len(B)
               /\ Untouched(st, r.st)

\* The union of A = [1, 2, 2, 3] and B = [2, 3, 4] by compare_int.
C14_Witness ==
    /\ op.name = "union_lists"
    /\ result # NULLP
    /\ Vals(st, L1) = <<1, 2, 2, 3>>
    /\ Vals(st, L2) = <<2, 3, 4>>
    /\ Vals(st, result) = <<1, 2, 3, 4>>

\* q without its element at position i (counted from 0).
Without(q, i) == SubSeq(q, 1, i) \o SubSeq(q, i + 2, Len(q))

\* C15: delete_index(i) with i < length returns success, removes exactly the
\* element at position i, whichever walk reaches it, keeps the order of the
\* others and decreases the length by 1. Tried on every reachable list and on
\* it grown by up to MaxGrow elements.
C15_DeleteIndexRemovesThatElement ==
    Live =>
        \A k \in 0..MaxGrow :
            LET s == Extended(st, L1, k)
                E == Elems(s, L1)
            IN \A i \in 0..(Len(E) - 1) :
                  LET r == delete_index(s, L1, i)
                      R == Elems(r.st, L1)
                  IN /\ r.rc = LIST_SUCCESS
                     /\ R = Without(E, i)
                     /\ ElemsBack(r.st, L1) = Rev(R)
                     /\ get_length(r.st, L1) = get_length(s, L1) - 1
                     /\ E[i + 1] \notin DOMAIN r.st.node
                     /\ r.st.blk[E[i + 1]].frees = s.blk[E[i + 1]].frees + 1
                     /\ \A b \in Range(R) : r.st.blk[b] = s.blk[b]

\* Three elements were inserted at the tail and delete_index(1) has left the
\* first and the third.
C15_Witness ==
    /\ Live
    /\ op = Op("delete_index", 1)
    /\ result = LIST_SUCCESS
    /\ Elems(st, L1) = <<1, 3>>
    /\ get_length(st, L1) = 2

\* C16 as stated: delete_index with index >= length returns the
\* index-out-of-bounds error for every list, the empty one included, and leaves
\* the list unchanged.
C16_OutOfBoundsOnEveryList ==
    Live =>
        \A i \in Indices :
            i >= get_length(st, L1) =>
                /\ delete_index(st, L1, i).rc = LIST_ERROR_INDEX_OUT_OF_BOUNDS
                /\ delete_index(st, L1, i).st = st

\* C16 amended: delete_index with index >= length returns the
\* index-out-of-bounds error on every non-empty list and the invalid-operation
\* error on the empty list; either way the list is unchanged.
C16_OutOfBoundsUnlessEmpty ==
    Live =>
        \A i \in Indices :
            i >= get_length(st, L1) =>
                /\ delete_index(st, L1, i).rc
                     = (IF get_length(st, L1) = 0 THEN LIST_ERROR_INVALID_OPERATION
                        ELSE LIST_ERROR_INDEX_OUT_OF_BOUNDS)
                /\ delete_index(st, L1, i).st = st

\* delete_index was refused at index = length on a list of two elements.
C16_Witness ==
    /\ Live
    /\ op = Op("delete_index", 2)
    /\ result = LIST_ERROR_INDEX_OUT_OF_BOUNDS
    /\ get_length(st, L1) = 2

\* C17: every result-code-returning operation called with a NULL list handle,
\* and every insertion called with NULL element data, returns the NULL-pointer
\* error without reading through the handle and without changing any list.
C17_NullArgumentsFailFast ==
    Live =>
        \A c \in NullHandleCalls(st) \cup NullDataCalls(st) :
            /\ c.r.rc = LIST_ERROR_NULL_POINTER
            /\ c.r.st = st

\* The codes of ListResult that name a missing callback.
MissingCallback ==
    {LIST_ERROR_NO_COMPARE_FUNCTION, LIST_ERROR_NO_PRINT_FUNCTION,
     LIST_ERROR_NO_FREE_FUNCTION}

\* C18: remove_advanced without a predicate, index_of and index_of_advanced
\* without a predicate and sort_list without a comparator each fail with a
\* code that names the missing callback (not the invalid-operation, not-found
\* or NULL-pointer code) and leave the list unchanged.
C18_MissingCallbackHasItsOwnCode ==
    Live =>
        /\ \A c \in Counts, d \in Directions :
              /\ remove_advanced(st, L1, c, d, NoPredicate).rc \in MissingCallback
              /\ remove_advanced(st, L1, c, d, NoPredicate).st = st
        /\ \A d \in Directions :
              \E rc \in MissingCallback :
                  index_of_advanced(st, L1, d, NoPredicate) = 0 - IntOf(rc)
        /\ \E rc \in MissingCallback : index_of(st, L1, NoPredicate) = 0 - IntOf(rc)
        /\ sort_list(st, L1, NoComparator).rc \in MissingCallback
        /\ sort_list(st, L1, NoComparator).st = st


\* C19: for an array arr of n >= 0 elements and any list, empty or not,
\* from_array(list, arr, n) succeeds, releases every element the list held and
\* leaves exactly the first n elements of arr, in order, in blocks of the
\* list's own; to_array then reports size n and returns those n payloads in
\* order (for n = 0 the size is 0 and the array returned is NULL).
C19_FromArrayThenToArray ==
    Live =>
        \A arr \in Arrays : \A n \in 0..Len(arr.elems) :
            LET E == Elems(st, L1)
                r == from_array(st, L1, arr, n)
                R == Elems(r.st, L1)
                t == to_array(r.st, L1, TRUE)
            IN /\ r.rc = LIST_SUCCESS
               /\ get_length(r.st, L1) = n
               /\ Len(R) = n
               /\ Vals(r.st, L1) = SubSeq(arr.elems, 1, n)
               /\ ElemsBack(r.st, L1) = Rev(R)
               /\ Range(R) \cap DOMAIN st.blk = {}
               /\ \A i \in 1..n : r.st.blk[R[i]].via = "memcpy"
               /\ \A b \in Range(E) :
                     /\ b \notin DOMAIN r.st.node
                     /\ r.st.blk[b].frees = st.blk[b].frees + 1
               /\ t.out_size = n
               /\ t.array.null <=> n = 0
               /\ t.array.elems = SubSeq(arr.elems, 1, n)

\* C19 happens: from_array put a two-element array into a list that held
\* something, and to_array gives the array back.
C19_Witness ==
    /\ Live
    /\ op = Op("from_array", 2)
    /\ result = LIST_SUCCESS
    /\ Vals(st, L1) = <<2, 1>>
    /\ Cardinality(DOMAIN st.blk) > 2
    /\ to_array(st, L1, TRUE) = [array |-> Array(FALSE, <<2, 1>>), out_size |-> 2]


\* Payloads that take more than one byte, and a negative one.
WideValues == {255, 256, 65537, -1, -256}

\* The list of s and the same list with one more element of a wide payload.
Widened(s) ==
    {s} \cup {insert_tail_value_internal(s, L1, w, TRUE).st : w \in WideValues}

\* C20: save_to_file in binary format writes the element count, then the
\* element size, then every element's bytes in list order, and leaves the list
\* alone; load_from_file in binary format with the same element size returns a
\* new list with the same length and the same payloads in the same order.
C20_BinaryRoundTrip ==
    Live =>
        \A s \in Widened(st), f \in Filenames :
            LET V == Vals(s, L1)
                n == Len(V)
                sv == save_to_file_binary(s, L1, f, TRUE)
                file == sv.st.fs[f]
                ld == load_from_file_binary(sv.st, f, SizeofInt, FALSE, FALSE, FALSE)
            IN /\ sv.rc = LIST_SUCCESS
               /\ Untouched(s, sv.st) /\ Untouched(sv.st, s)
               /\ Len(file) = 2 * SizeofSizeT + n * SizeofInt
               /\ FromBytes(SubSeq(file, 1, SizeofSizeT)) = n
               /\ FromBytes(SubSeq(file, SizeofSizeT + 1, 2 * SizeofSizeT)) = SizeofInt
               /\ \A i \in 1..n :
                     SubSeq(file, 2 * SizeofSizeT + (i - 1) * SizeofInt + 1,
                            2 * SizeofSizeT + i * SizeofInt) = Bytes(V[i], SizeofInt)
               /\ ld.list # NULLP
               /\ ld.list \notin DOMAIN s.lists
               /\ get_length(ld.st, ld.list) = n
               /\ Vals(ld.st, ld.list) = V
               /\ ElemsBack(ld.st, ld.list) = Rev(Elems(ld.st, ld.list))
               /\ Range(Elems(ld.st, ld.list)) \cap DOMAIN s.blk = {}
               /\ Untouched(sv.st, ld.st)

\* C20 happens: a list of three elements was saved, the file's header says 3,
\* and the list loaded from it has the same three elements.
C20_Witness ==
    /\ Live
    /\ op.name = "load_from_file"
    /\ result \in DOMAIN st.lists
    /\ result # L1
    /\ get_length(st, L1) = 3
    /\ FromBytes(SubSeq(st.fs[op.arg], 1, SizeofSizeT)) = 3
    /\ Vals(st, result) = Vals(st, L1)


\* The i-th payload of the result is map_fn applied to the i-th payload of the
\* source; the result is a new, well-linked list of the new element size whose
\* elements are blocks of its own; the source is untouched.
MappedFrom(s, r, map_fn, new_element_size) ==
    LET V == Vals(s, L1)
    IN /\ r.list # NULLP
       /\ r.list \notin DOMAIN s.lists
       /\ get_length(r.st, r.list) = Len(V)
       /\ Vals(r.st, r.list) = [i \in 1..Len(V) |-> map_fn.fn[V[i]]]
       /\ ElemsBack(r.st, r.list) = Rev(Elems(r.st, r.list))
       /\ Range(Elems(r.st, r.list)) \cap DOMAIN s.blk = {}
       /\ r.st.lists[r.list].element_size = new_element_size
       /\ Untouched(s, r.st)

\* C21 as stated: map returns a fresh list of the same length whose i-th
\* element is f of the source's i-th element, with the source's free and copy
\* callbacks and without its print callback; the source is unchanged.
C21_MapInheritsFreeAndCopy ==
    Live =>
        \A map_fn \in MapFunctions, new_element_size \in NewSizes :
            LET r == map(st, L1, map_fn, new_element_size)
            IN /\ MappedFrom(st, r, map_fn, new_element_size)
               /\ ~r.st.lists[r.list].print_node_function
               /\ r.st.lists[r.list].free_node_function = st.lists[L1].free_node_function
               /\ r.st.lists[r.list].copy_node_function = st.lists[L1].copy_node_function

\* C21 amended: map returns a fresh list of the same length whose i-th element
\* is f of the source's i-th element, with none of the source's callbacks
\* (print, free and copy are all unset); the source is unchanged.
C21_MapInheritsNoCallback ==
    Live =>
        \A map_fn \in MapFunctions, new_element_size \in NewSizes :
            LET r == map(st, L1, map_fn, new_element_size)
            IN /\ MappedFrom(st, r, map_fn, new_element_size)
               /\ ~r.st.lists[r.list].print_node_function
               /\ ~r.st.lists[r.list].free_node_function
               /\ ~r.st.lists[r.list].copy_node_function

\* C21 happens: a list with all three callbacks set and the elements 2, 1 was
\* mapped by adding ten, and the new list has no callback.
C21_Witness ==
    /\ Live
    /\ op.name = "map"
    /\ result \in DOMAIN st.lists \ {L1}
    /\ st.lists[L1].print_node_function
    /\ st.lists[L1].free_node_function
    /\ st.lists[L1].copy_node_function
    /\ Vals(st, L1) = <<2, 1>>
    /\ Vals(st, result) = <<12, 11>>
    /\ ~st.lists[result].free_node_function
    /\ ~st.lists[result].copy_node_function


\* The position of x in q.
PosIn(q, x) == CHOOSE i \in 1..Len(q) : q[i] = x

\* R holds the elements of E, each once, in ascending order of key, those of
\* equal key in the order they have in E.
StablySorted(s, E, R, key) ==
    /\ Len(R) = Len(E)
    /\ Range(R) = Range(E)
    /\ \A i \in 1..(Len(R) - 1) :
          /\ key[s.blk[R[i]].val] <= key[s.blk[R[i + 1]].val]
          /\ key[s.blk[R[i]].val] = key[s.blk[R[i + 1]].val]
                => PosIn(E, R[i]) < PosIn(E, R[i + 1])

\* C22: with a comparator that is a total preorder, sort_list ends with success
\* and leaves the same elements, none lost or changed, in ascending order of
\* the comparator, equal ones in their original relative order, in a
\* well-linked chain of the same length.
C22_SortIsStableAscending ==
    Live =>
        \A c \in SortComparators :
            LET E == Elems(st, L1)
                r == sort_list(st, L1, c)
                R == Elems(r.st, L1)
            IN /\ r.rc = LIST_SUCCESS
               /\ get_length(r.st, L1) = get_length(st, L1)
               /\ StablySorted(st, E, R, c.key)
               /\ ElemsBack(r.st, L1) = Rev(R)
               /\ Chain(r.st, L1) = Chain(st, L1)
               /\ r.st.blk = st.blk
               /\ \A i \in 1..(Len(R) - 1) : Compare(r.st, c, R[i], R[i + 1]) <= 0

\* C22 happens: the list 1, 2, 3, 4 was sorted by parity, which took swaps in
\* more than one pass and kept 2 before 4 and 1 before 3.
C22_Witness ==
    /\ Live
    /\ op.name = "sort_list"
    /\ result = LIST_SUCCESS
    /\ Vals(st, L1) = <<2, 4, 1, 3>>
    /\ Elems(st, L1) = <<2, 4, 1, 3>>


\* The chain of l is a well-formed doubly linked list: next from the head
\* sentinel reaches the tail sentinel after exactly length real nodes, prev from
\* the tail sentinel reaches the head sentinel over the same nodes in reverse,
\* and each real node is the next of its prev and the prev of its next.
WellFormed(s, l) ==
    LET c == Chain(s, l)
        head == s.lists[l].head
        tail == s.lists[l].tail
    IN /\ ChainEnd(s, l) = tail
       /\ Len(c) = s.lists[l].length
       /\ ChainBack(s, l) = Rev(c)
       /\ s.node[IF c = <<>> THEN tail ELSE c[1]].prev = head
       /\ s.node[IF c = <<>> THEN head ELSE c[Len(c)]].next = tail
       /\ \A i \in 1..Len(c) :
             /\ s.node[s.node[c[i]].prev].next = c[i]
             /\ s.node[s.node[c[i]].next].prev = c[i]
       /\ s.lists[l].length = 0 =>
             s.node[head].next = tail /\ s.node[tail].prev = head

\* The memories one more in-place call on l leaves.
AfterOneCall(s, l) ==
    {insert_head_value_internal(s, l, v, TRUE).st : v \in Values}
    \cup {insert_tail_value_internal(s, l, v, TRUE).st : v \in Values}
    \cup {insert_head_ptr(s, l, v, TRUE).st : v \in Values}
    \cup {insert_tail_ptr(s, l, v, TRUE).st : v \in Values}
    \cup {insert_index_value_internal(s, l, i, 1, TRUE).st : i \in 0..(MaxIdx + MaxGrow)}
    \cup {insert_index_ptr(s, l, i, 1, TRUE).st : i \in 0..(MaxIdx + MaxGrow)}
    \cup {delete_head(s, l).st, delete_tail(s, l).st, clear(s, l).st, reverse(s, l).st}
    \cup {delete_index(s, l, i).st : i \in 0..(MaxIdx + MaxGrow)}
    \cup {remove_advanced(s, l, count, d, p).st :
             count \in Counts, d \in Directions, p \in Predicates}
    \cup {rotate(s, l, positions).st : positions \in Rotations}
    \cup {sort_list(s, l, c).st : c \in SortComparators}

\* C23: after any sequence of insertions, deletions, remove_advanced, reverse,
\* rotate, sort_list and clear the chain is a well-formed doubly linked list;
\* tried on every reachable list and, for the walks of lists longer than those
\* (4 and 5 elements), after one more call of each kind on the list grown by
\* MaxGrow elements.
C23_ChainWellFormed ==
    Alive =>
        /\ WellFormed(st, L1)
        /\ get_length(st, L1) + MaxGrow > MaxAlloc =>
              \A t \in AfterOneCall(Extended(st, L1, MaxGrow), L1) : WellFormed(t, L1)

\* C23 happens: a list of three elements was rotated by one and is well
\* formed.
C23_Witness ==
    /\ Alive
    /\ op = Op("rotate", 1)
    /\ result = LIST_SUCCESS
    /\ Elems(st, L1) = <<2, 3, 1>>
    /\ WellFormed(st, L1)


\* The positions of the first n (from the head) or last n (from the tail)
\* members of M, a set of positions: those with fewer than n members of M
\* before them on the way from the chosen end.
FirstFrom(M, n, order) ==
    {i \in M : Cardinality({j \in M : IF order = START_FROM_TAIL THEN j > i ELSE j < i}) < n}

\* C24: remove_advanced deletes exactly the first min(count, matches) elements
\* satisfying the predicate met from the chosen end (all of them for
\* DELETE_ALL_OCCURRENCES), each released once, keeps every other element, a
\* match beyond count too, in its place relative to the others, and returns
\* success iff it removed one, else element-not-found with the list unchanged.
C24_RemoveAdvancedRemovesFirstMatches ==
    Live =>
        \A count \in {DELETE_ALL_OCCURRENCES} \cup (0..MaxRemove),
           order \in Directions, predicate \in Predicates :
            LET E == Elems(st, L1)
                M == {i \in 1..Len(E) : st.blk[E[i]].val \in predicate.sat}
                n == IF count = DELETE_ALL_OCCURRENCES \/ count > Cardinality(M)
                     THEN Cardinality(M) ELSE count
                D == FirstFrom(M, n, order)
                r == remove_advanced(st, L1, count, order, predicate)
                R == Elems(r.st, L1)
            IN /\ Cardinality(D) = n
               /\ R = Sel(E, (1..Len(E)) \ D, 1)
               /\ ElemsBack(r.st, L1) = Rev(R)
               /\ get_length(r.st, L1) = Len(E) - n
               /\ \A i \in D : r.st.blk[E[i]].frees = st.blk[E[i]].frees + 1
               /\ \A b \in Range(R) : r.st.blk[b] = st.blk[b]
               /\ r.rc = (IF n > 0 THEN LIST_SUCCESS ELSE LIST_ERROR_ELEMENT_NOT_FOUND)
               /\ n = 0 => r.st = st

\* C24 happens: of three matching elements the one nearest the tail was
\* removed, the count being 1, and the other two are still there.
C24_Witness ==
    /\ Live
    /\ op.name = "remove_advanced"
    /\ result = LIST_SUCCESS
    /\ Elems(st, L1) = <<1, 2, 4>>
    /\ Vals(st, L1) = <<1, 1, 4>>
    /\ st.blk[3].val = 1
    /\ st.blk[3].frees = 1


\* An element's payload stands for the resource the element refers to (the
\* name a Person points to); the free callback, given an element block,
\* releases the resource that block refers to. The number of blocks through
\* which resource v was handed to the free callback:
Released(s, v) ==
    Cardinality({b \in DOMAIN s.blk : s.blk[b].val = v /\ s.blk[b].cbs > 0})

\* The lists derived from l: copy, slice, concat, filter, unique, intersection
\* and union (NULL for the slice of an empty list).
DerivedFrom(s, l) ==
    {copy(s, l), slice(s, l, 0, MaxIdx), concat(s, l, l),
     filter(s, l, Predicate(FALSE, Values)), unique(s, l, compare_int),
     intersection(s, l, l, compare_int), union_lists(s, l, l, compare_int)}

\* C25: when the source list has a free callback, destroying or clearing a
\* list derived from it hands to the free callback no resource an element of
\* the source still refers to, and once the source is destroyed as well every
\* resource has been handed to it at most once.
C25_DerivedListsShareNoResource ==
    (Live /\ DOMAIN st.lists = {L1} /\ st.lists[L1].free_node_function) =>
        \A r \in DerivedFrom(st, L1) :
            r.list # NULLP =>
                \A t \in {destroy(r.st, r.list), clear(r.st, r.list).st} :
                    /\ \A b \in Range(Elems(t, L1)) : Released(t, t.blk[b].val) = 0
                    /\ \A b \in DOMAIN t.blk : Released(destroy(t, L1), t.blk[b].val) <= 1


\* C26: extend(list, other) ends after one insertion per element other had
\* when the call began: given room for those, it returns success with exactly
\* that many elements allocated and list's sequence followed by other's, also
\* when list and other are the same handle.
C26_ExtendAppendsWhatOtherHeld ==
    Underived =>
        \A list \in {L1, L2}, other \in {L1, L2} :
            LET n == get_length(st, other)
                r == extend(st, list, other)
            IN Cardinality(DOMAIN st.blk) + n <= HeapSize =>
                  /\ r.rc = LIST_SUCCESS
                  /\ Cardinality(DOMAIN r.st.blk) = Cardinality(DOMAIN st.blk) + n
                  /\ get_length(r.st, list) = get_length(st, list) + n
                  /\ Vals(r.st, list) = Vals(st, list) \o Vals(st, other)


\* The last k elements of q.
LastOf(q, k) == SubSeq(q, Len(q) - k + 1, Len(q))

LastOfClass(q, key) ==
    {i \in 1..Len(q) : \A j \in (i + 1)..Len(q) : key[q[j]] # key[q[i]]}

\* C28: unique_advanced from the head returns the first occurrence of every
\* class of equal elements in original order, from the tail the last occurrence
\* of every class in the order those have in the list; no two elements of the
\* result compare equal, every element of the list has an equal in the result,
\* and the list is unchanged.
C28_UniqueAdvancedKeepsFirstOrLast ==
    Underived =>
        \A c \in Comparators, d \in Directions :
            LET r == unique_advanced(st, L1, c, d)
                A == Vals(st, L1)
                U == Vals(r.st, r.list)
            IN /\ r.list # NULLP
               /\ r.list \notin DOMAIN st.lists
               /\ ChainEnd(r.st, r.list) = r.st.lists[r.list].tail
               /\ ElemsBack(r.st, r.list) = Rev(Elems(r.st, r.list))
               /\ get_length(r.st, r.list) = Len(U)
               /\ U = Sel(A, IF d = START_FROM_HEAD THEN FirstOfClass(A, c.key)
                             ELSE LastOfClass(A, c.key), 1)
               /\ \A i, j \in 1..Len(U) : i # j => c.key[U[i]] # c.key[U[j]]
               /\ \A i \in 1..Len(A) : \E j \in 1..Len(U) : c.key[U[j]] = c.key[A[i]]
               /\ Untouched(st, r.st)

\* C28 witness: unique_advanced from the tail returned last occurrences that
\* are not the first ones.
C28_Witness ==
    /\ op.name = "unique_advanced"
    /\ result # NULLP
    /\ Len(Vals(st, L1)) = MaxLenA
    /\ Len(Vals(st, result)) = 2
    /\ Vals(st, result) = Sel(Vals(st, L1), LastOfClass(Vals(st, L1), compare_parity.key), 1)
    /\ Vals(st, result) # Sel(Vals(st, L1), FirstOfClass(Vals(st, L1), compare_parity.key), 1)


\* The negative values index_of_advanced returns for no match, for a NULL list
\* and for a NULL predicate.
NoMatchValue == 0 - IntOf(LIST_ERROR_ELEMENT_NOT_FOUND)
NullListValue == 0 - IntOf(LIST_ERROR_NULL_POINTER)
NoPredicateValue == 0 - IntOf(LIST_ERROR_INVALID_OPERATION)

\* C29: index_of_advanced returns the head-based position of the first match
\* met from the chosen end (the smallest matching position from the head, the
\* largest from the tail), and otherwise one of three pairwise different
\* negative values: for no match (also on the empty list), for a NULL list and
\* for a NULL predicate.
C29_IndexOfAdvancedFindsFromEitherEnd ==
    Alive =>
        /\ NoMatchValue < 0 /\ NullListValue < 0 /\ NoPredicateValue < 0
        /\ Cardinality({NoMatchValue, NullListValue, NoPredicateValue}) = 3
        /\ \A d \in Directions :
              /\ \A p \in Predicates \cup {NoPredicate} :
                    index_of_advanced(st, NULLP, d, p) = NullListValue
              /\ index_of_advanced(st, L1, d, NoPredicate) = NoPredicateValue
              /\ \A p \in Predicates :
                    LET A == Vals(st, L1)
                        M == {i \in 1..Len(A) : A[i] \in p.sat}
                        r == index_of_advanced(st, L1, d, p)
                    IN /\ M = {} => r = NoMatchValue
                       /\ M # {} =>
                             /\ r + 1 \in M
                             /\ \A i \in M : IF d = START_FROM_TAIL THEN i <= r + 1
                                             ELSE i >= r + 1

\* C29 witness: a search from the tail returned the last position of a full
\* list whose first element matches as well.
C29_Witness ==
    /\ Alive
    /\ op = Op("index_of_advanced", 1)
    /\ Len(Vals(st, L1)) = MaxLenA
    /\ result = MaxLenA - 1
    /\ Vals(st, L1)[1] = Vals(st, L1)[MaxLenA]


\* C30: a list of int or of char elements saved as text with a separator and
\* loaded as text with the same element size and the same separator comes
\* back as a new list with the same elements in the same order.
C30_TextRoundTrip ==
    (Alive /\ DOMAIN st.lists = {L1}) =>
        \A f \in Filenames, i \in DOMAIN Separators :
            LET saved == save_to_file_text(st, L1, f, Separators[i], TRUE)
                r == load_from_file_text(saved.st, f, st.lists[L1].element_size,
                                         Separators[i], FALSE, FALSE, FALSE)
            IN /\ saved.rc = LIST_SUCCESS
               /\ r.list # NULLP
               /\ get_length(r.st, r.list) = get_length(st, L1)
               /\ Vals(r.st, r.list) = Vals(st, L1)

====
